---- MODULE Spec2Model ----
(***************************************************************************)
(* A model of kalbot's signal publication, paper execution and settlement  *)
(* reconciliation, and of the diversified signal selector.                 *)
(*                                                                         *)
(* Units.  Probabilities and prices are in cents (0.41 is 41), notional    *)
(* amounts are in cents of a dollar, so contracts * entry_price is a       *)
(* notional in cents and max_notional // entry_price is an integer         *)
(* division.  Timestamps are logical ticks.                                *)
(***************************************************************************)
EXTENDS Integers, Sequences, FiniteSets, TLC

VARIABLES
    now,                \* NOW(), in ticks; the run date is Date(now)
    execution_mode,     \* settings.execution_mode of the process
    market_snapshots,   \* latest market_snapshots row per market
    published_signals,  \* table published_signals, in insertion order
    predictions,        \* table predictions, one row per model run (same index)
    orders,             \* table orders, in insertion order
    positions,          \* table positions, in insertion order
    settlements,        \* table settlements, keyed by market_id
    daily_metrics,      \* table daily_metrics, keyed by (metric_date, execution_mode)
    cands,              \* selector input: city_code of each ranked candidate
    limit,              \* selector input: limit
    max_per_city,       \* selector input: max_per_city
    selected,           \* selector output: indexes into cands, in output order
    upstream,           \* what the Kalshi market endpoint answers per market ticker
    summary,            \* SettlementReconcileSummary of the last reconcile run
    backtest_rows,      \* rows of the last backtest report
    steps,              \* DailyPipeline.steps: the step results recorded so far
    invoked,            \* the pipeline steps whose function was called, in call order
    runs,               \* the execute_paper_trades runs in flight: locals and uncommitted rows
    input,              \* arguments of the function under evaluation
    output,             \* its return value
    pc                  \* "db" for the repository machine, "input"/"done" for the selector

vars == <<now, execution_mode, market_snapshots, published_signals, predictions,
          orders, positions, settlements, daily_metrics, cands, limit, max_per_city, selected,
          upstream, summary, backtest_rows, steps, invoked, runs, input, output, pc>>

dbVars == <<now, execution_mode, market_snapshots, published_signals, predictions,
            orders, positions, settlements, daily_metrics>>

selVars == <<cands, limit, max_per_city, selected>>

recVars == <<upstream, summary, backtest_rows>>

pipeVars == <<steps, invoked>>

fnVars == <<input, output>>

\* the variables only the pipeline, the concurrent runs and the function
\* evaluations use
extVars == <<steps, invoked, runs, input, output>>

----------------------------------------------------------------------------
(* Bounds of the model *)

MaxTime == 3
MaxPositions == 2
MaxCands == 4
MaxLimit == 3
MaxCap == 2

Min(a, b) == IF a <= b THEN a ELSE b
Max(a, b) == IF a >= b THEN a ELSE b
Abs(x) == IF x < 0 THEN -x ELSE x

Range(s) == {s[i] : i \in 1..Len(s)}

----------------------------------------------------------------------------
(* Settings (src/kalbot/settings.py).  The process is configured through   *)
(* KALBOT_* environment values; the model runs a configuration scaled so   *)
(* that the per-signal cap, the contract cap and the daily budget all bind *)
(* on the modelled prices.                                                 *)

paper_edge_threshold == 3
max_notional_per_signal_usd == 110
max_daily_notional_usd == 120
max_contracts_per_order == 2
signal_publish_limit == 4
publish_max_per_city == 2

ExecutionModes == {"paper", "live"}

----------------------------------------------------------------------------
(* Markets.  A market id stands for its row in `markets`; ids are given in *)
(* ascending market_ticker order, so ordering by ticker is ordering by id. *)
(* Live low-temperature markets carry a KXLOWT<CITY>- ticker; the demo     *)
(* market of a run date is WEATHER-NYC-<date>-HIGH-GT-45F.                 *)

\* timestamps are ticks; two ticks make a day (timestamp::date)
Date(t) == (t + 1) \div 2

LiveMarkets == {1}
DemoMarket(d) == 10 + d
DemoMarkets == {DemoMarket(Date(t)) : t \in 1..MaxTime}
AllMarkets == LiveMarkets \cup DemoMarkets

\* _extract_low_temp_city_code: the [A-Z]+ group after KXLOWT in the ticker
extract_low_temp_city_code(m) == IF m \in LiveMarkets THEN "NYC" ELSE ""

\* market_ticker LIKE 'KXLOWT%': the live markets and the KXLOWT markets of
\* other series, which the live publish does not read
LowTempMarkets == {1, 2}
IsLowTempTicker(m) == m \in LowTempMarkets

(* A nullable column is a sequence of length 0 (NULL) or 1. *)
NULL == <<>>
Some(x) == <<x>>

NoSnapshot == [bid_yes |-> NULL, ask_yes |-> NULL, last_price_yes |-> NULL]
DemoSnapshot == [bid_yes |-> Some(53), ask_yes |-> Some(55), last_price_yes |-> Some(54)]
\* the quotes ingestion may have stored last for a live market (bid + ask even)
SnapshotChoices ==
    { NoSnapshot,
      [bid_yes |-> Some(39), ask_yes |-> Some(41), last_price_yes |-> Some(43)],
      [bid_yes |-> Some(0), ask_yes |-> Some(72), last_price_yes |-> Some(70)] }

\* COALESCE(CASE WHEN bid, ask NOT NULL AND > 0 THEN (bid + ask) / 2.0 END,
\*          last_price_yes, fallback)
market_yes_of(ms, fallback) ==
    IF /\ ms.bid_yes # NULL /\ ms.ask_yes # NULL
       /\ ms.bid_yes[1] > 0 /\ ms.ask_yes[1] > 0
    THEN (ms.bid_yes[1] + ms.ask_yes[1]) \div 2
    ELSE IF ms.last_price_yes # NULL THEN ms.last_price_yes[1]
    ELSE fallback

----------------------------------------------------------------------------
(* Pure helpers of paper_execution.py *)

\* a sizing without the contract cap
contracts_for_notional_uncapped(entry_price, max_notional, max_contracts) ==
    IF entry_price <= 0 \/ max_notional <= 0 \/ max_contracts <= 0
    THEN 0
    ELSE max_notional \div entry_price

contracts_for_notional(entry_price, max_notional, max_contracts) ==
    IF entry_price <= 0 \/ max_notional <= 0 \/ max_contracts <= 0
    THEN 0
    ELSE LET affordable == max_notional \div entry_price
         IN  Max(0, Min(affordable, max_contracts))

\* a side rule that sends a zero edge to the "no" side
edge_to_order_strict(edge, market_yes) ==
    LET clipped_market_yes == Max(1, Min(99, market_yes))
    IN  IF edge > 0
        THEN [side |-> "yes", entry_price |-> clipped_market_yes]
        ELSE [side |-> "no", entry_price |-> Max(1, Min(99, 100 - clipped_market_yes))]

edge_to_order(edge, market_yes) ==
    LET clipped_market_yes == Max(1, Min(99, market_yes))
    IN  IF edge >= 0
        THEN [side |-> "yes", entry_price |-> clipped_market_yes]
        ELSE [side |-> "no", entry_price |-> Max(1, Min(99, 100 - clipped_market_yes))]

----------------------------------------------------------------------------
(* _select_diversified_signals.  `cities` is the ranked candidate list,    *)
(* each candidate given by its city_code ("" for a missing one); the       *)
(* result is the list of selected candidates as indexes into `cities`.     *)
(* Candidates are distinct rows, so `candidate in selected` is index       *)
(* membership.                                                             *)

CityKey(code) == IF code = "" THEN "UNKNOWN" ELSE code

CityCount(cities, sel, city) ==
    Cardinality({j \in 1..Len(sel) : CityKey(cities[sel[j]]) = city})

\* a pass 1 that never checks len(selected) >= limit
RECURSIVE SelectPass1IgnoringLimit(_, _, _, _)
SelectPass1IgnoringLimit(cities, lim, i, sel) ==
    IF i > Len(cities) THEN [sel |-> sel, full |-> FALSE]
    ELSE IF CityCount(cities, sel, CityKey(cities[i])) > 0
         THEN SelectPass1IgnoringLimit(cities, lim, i + 1, sel)
         ELSE SelectPass1IgnoringLimit(cities, lim, i + 1, Append(sel, i))

\* Pass 1: the first candidate of every city not seen yet, until limit is reached.
\* Returns [sel, full]; full means the loop returned from the function.
RECURSIVE SelectPass1(_, _, _, _)
SelectPass1(cities, lim, i, sel) ==
    IF i > Len(cities) THEN [sel |-> sel, full |-> FALSE]
    ELSE IF CityCount(cities, sel, CityKey(cities[i])) > 0
         THEN SelectPass1(cities, lim, i + 1, sel)
         ELSE IF Len(sel) + 1 >= lim
              THEN [sel |-> Append(sel, i), full |-> TRUE]
              ELSE SelectPass1(cities, lim, i + 1, Append(sel, i))

\* Mutant of SelectPass2: the per-city cap check is missing.
RECURSIVE SelectPass2NoCap(_, _, _, _, _)
SelectPass2NoCap(cities, lim, cap, i, sel) ==
    IF i > Len(cities) THEN sel
    ELSE IF i \in Range(sel)
         THEN SelectPass2NoCap(cities, lim, cap, i + 1, sel)
         ELSE IF Len(sel) + 1 >= lim
              THEN Append(sel, i)
              ELSE SelectPass2NoCap(cities, lim, cap, i + 1, Append(sel, i))

\* Pass 2: leftovers in rank order whose city is below max_per_city.
RECURSIVE SelectPass2(_, _, _, _, _)
SelectPass2(cities, lim, cap, i, sel) ==
    IF i > Len(cities) THEN sel
    ELSE IF i \in Range(sel)
         THEN SelectPass2(cities, lim, cap, i + 1, sel)
         ELSE IF CityCount(cities, sel, CityKey(cities[i])) >= cap
              THEN SelectPass2(cities, lim, cap, i + 1, sel)
              ELSE IF Len(sel) + 1 >= lim
                   THEN Append(sel, i)
                   ELSE SelectPass2(cities, lim, cap, i + 1, Append(sel, i))

\* Mutant of select_diversified_signals: pass 1 is missing, the list is filled
\* in rank order under the cap alone.
select_without_city_pass(cities, lim, cap) ==
    IF lim <= 0 \/ cities = <<>> THEN <<>>
    ELSE SelectPass2(cities, lim, cap, 1, <<>>)

select_diversified_signals(cities, lim, cap) ==
    IF lim <= 0 \/ cities = <<>> THEN <<>>
    ELSE LET p1 == SelectPass1(cities, lim, 1, <<>>)
         IN  IF p1.full THEN p1.sel
             ELSE SelectPass2(cities, lim, cap, 1, p1.sel)

----------------------------------------------------------------------------
(* Initial state: an empty database with the markets ingested. *)

Init ==
    /\ now = 1
    /\ execution_mode = "paper"
    /\ market_snapshots = [m \in AllMarkets |-> NoSnapshot]
    /\ published_signals = <<>>
    /\ predictions = <<>>
    /\ orders = <<>>
    /\ positions = <<>>
    /\ settlements = [m \in AllMarkets |-> NULL]
    /\ daily_metrics = [k \in {Date(t) : t \in 1..MaxTime} \X ExecutionModes |-> NULL]
    /\ cands = <<>>
    /\ limit = 0
    /\ max_per_city = 0
    /\ selected = <<>>
    /\ upstream = <<>>
    /\ summary = <<>>
    /\ backtest_rows = {}
    /\ steps = <<>>
    /\ invoked = <<>>
    /\ runs = <<>>
    /\ input = <<>>
    /\ output = <<>>
    /\ pc = "db"

\* ingest_kalshi_weather_markets stores a fresh snapshot of a live market
IngestSnapshot ==
    /\ pc = "db"
    /\ \E m \in LiveMarkets, ms \in SnapshotChoices :
          /\ market_snapshots[m] # ms
          /\ market_snapshots' = [market_snapshots EXCEPT ![m] = ms]
    /\ UNCHANGED <<now, execution_mode, published_signals, predictions,
                   orders, positions, settlements, daily_metrics, selVars, recVars, extVars, pc>>

----------------------------------------------------------------------------
(* publish_live_low_temp_signals *)

Perms(S) == {s \in [1..Cardinality(S) -> S] : Range(s) = S}

\* model probabilities a forecast-backed candidate may get (already clamped to [1, 99])
ModelProbs == {50}

\* What the market query and _evaluate_low_temp_market_candidate give for one
\* market: "closed" (not returned by the query), "skip" (evaluator returned None)
\* or a candidate.
EvalChoices ==
    { [kind |-> "closed", has_forecast |-> FALSE, liquid |-> FALSE, prob_yes |-> 0],
      [kind |-> "skip", has_forecast |-> FALSE, liquid |-> FALSE, prob_yes |-> 0],
      [kind |-> "cand", has_forecast |-> FALSE, liquid |-> FALSE, prob_yes |-> 0] }
    \cup [kind : {"cand"}, has_forecast : {TRUE}, liquid : BOOLEAN, prob_yes : ModelProbs]

\* prob_yes of a candidate: the model's, or the market's when there is no forecast
CandidateProb(m, ev) ==
    IF ev.has_forecast THEN ev.prob_yes
    ELSE market_yes_of(market_snapshots[m], 50)

LivePool(evals) ==
    LET candidates == {m \in LiveMarkets : evals[m].kind = "cand"}
        forecasted == {m \in candidates : evals[m].has_forecast}
        liquid == {m \in forecasted : evals[m].liquid}
    IN  IF liquid # {} THEN liquid
        ELSE IF forecasted # {} THEN forecasted ELSE candidates

\* a publish that forgets the UPDATE
DeactivateNone(sigs) == sigs

\* UPDATE published_signals SET is_active = FALSE WHERE is_active = TRUE
DeactivateAll(sigs) == [i \in 1..Len(sigs) |-> [sigs[i] EXCEPT !.is_active = FALSE]]

\* the rows one live publish inserts for `batch` (a sequence of markets)
RECURSIVE InsertSignals(_, _, _, _)
InsertSignals(sigs, batch, j, t) ==
    IF j > Len(batch) THEN sigs
    ELSE InsertSignals(
            Append(sigs, [market_id |-> batch[j], model_run_id |-> Len(sigs) + 1,
                          is_active |-> TRUE, published_at |-> t]),
            batch, j + 1, t)

RECURSIVE InsertPredictions(_, _, _, _, _)
InsertPredictions(preds, batch, evals, j, t) ==
    IF j > Len(batch) THEN preds
    ELSE InsertPredictions(
            Append(preds, [model_run_id |-> Len(preds) + 1, market_id |-> batch[j],
                           prob_yes |-> CandidateProb(batch[j], evals[batch[j]]),
                           predicted_at |-> t]),
            batch, evals, j + 1, t)

LiveBatch(ranked) ==
    LET idx == select_diversified_signals(
                   [i \in 1..Len(ranked) |-> extract_low_temp_city_code(ranked[i])],
                   signal_publish_limit, publish_max_per_city)
    IN  [j \in 1..Len(idx) |-> ranked[idx[j]]]

LiveSignalsAfter(sigs, batch, t) == InsertSignals(DeactivateAll(sigs), batch, 1, t)

\* what a live publish that commits writes
PublishLiveWrites ==
    \E evals \in [LiveMarkets -> EvalChoices] :
        /\ LivePool(evals) # {}
        /\ \E ranked \in Perms(LivePool(evals)) :
              LET batch == LiveBatch(ranked) IN
              /\ published_signals' = LiveSignalsAfter(published_signals, batch, now)
              /\ predictions' = InsertPredictions(predictions, batch, evals, 1, now)

PublishLive ==
    /\ pc = "db"
    /\ now < MaxTime
    /\ PublishLiveWrites
    /\ now' = now + 1
    /\ UNCHANGED <<execution_mode, market_snapshots, orders, positions, settlements,
                   daily_metrics, selVars, recVars, extVars, pc>>

----------------------------------------------------------------------------
(* publish_demo_signal_for_date, reached from publish_best_signal_for_date *)
(* when the live publish raised (its transaction rolled back).             *)

\* a demo publish that forgets the UPDATE
DeactivateNoOthers(sigs, market_id, model_run_id) == sigs

\* UPDATE published_signals SET is_active = FALSE
\*   WHERE market_id = %s AND model_run_id <> %s AND is_active = TRUE
DeactivateOthersOfMarket(sigs, market_id, model_run_id) ==
    [i \in 1..Len(sigs) |->
        IF /\ sigs[i].market_id = market_id
           /\ sigs[i].model_run_id # model_run_id
           /\ sigs[i].is_active
        THEN [sigs[i] EXCEPT !.is_active = FALSE]
        ELSE sigs[i]]

DemoSignalsAfter(sigs, market_id, t) ==
    LET model_run_id == Len(sigs) + 1
    IN  DeactivateOthersOfMarket(
            Append(sigs, [market_id |-> market_id, model_run_id |-> model_run_id,
                          is_active |-> TRUE, published_at |-> t]),
            market_id, model_run_id)

\* what the demo publish writes after the live publish raised
PublishDemoWrites ==
    /\ \E evals \in [LiveMarkets -> EvalChoices] :
          LivePool(evals) = {}      \* "No live KXLOWT markets" / "No valid candidates"
    /\ LET market_id == DemoMarket(Date(now)) IN
          /\ market_snapshots' = [market_snapshots EXCEPT ![market_id] = DemoSnapshot]
          /\ predictions' = Append(predictions,
                 [model_run_id |-> Len(predictions) + 1, market_id |-> market_id,
                  prob_yes |-> 61, predicted_at |-> now])
          /\ published_signals' = DemoSignalsAfter(published_signals, market_id, now)

PublishDemoFallback ==
    /\ pc = "db"
    /\ now < MaxTime
    /\ PublishDemoWrites
    /\ now' = now + 1
    /\ UNCHANGED <<execution_mode, orders, positions, settlements,
                   daily_metrics, selVars, recVars, extVars, pc>>

----------------------------------------------------------------------------
(* execute_paper_trades *)

\* latest_signals: DISTINCT ON (market_id) ... WHERE is_active ORDER BY published_at DESC
LatestSignalIndex(sigs, m) ==
    LET act == {i \in 1..Len(sigs) : sigs[i].market_id = m /\ sigs[i].is_active}
    IN  CHOOSE i \in act : \A k \in act : k <= i

\* one row of the SELECT (before the edge filter) for a market with an active signal
ExecutionRow(sigs, preds, snaps, m) ==
    LET ls == sigs[LatestSignalIndex(sigs, m)]
        p == preds[ls.model_run_id]
        market_yes == market_yes_of(snaps[m], p.prob_yes)
    IN  [market_id |-> m, prediction_id |-> p.model_run_id, decision_id |-> p.model_run_id,
         prob_yes |-> p.prob_yes, market_yes |-> market_yes,
         edge |-> p.prob_yes - market_yes]

\* WHERE ABS(prob_yes - market_yes) >= %s
ExecutionRowSet(sigs, preds, snaps, threshold) ==
    { r \in { ExecutionRow(sigs, preds, snaps, m) :
                m \in {sigs[i].market_id : i \in {k \in 1..Len(sigs) : sigs[k].is_active}} } :
        Abs(r.edge) >= threshold }

\* an ORDER BY market_ticker ASC alone
RowBeforeTickerFirst(a, b) == a.market_id <= b.market_id

\* ORDER BY ABS(edge) DESC, market_ticker ASC
RowBefore(a, b) ==
    \/ Abs(a.edge) > Abs(b.edge)
    \/ Abs(a.edge) = Abs(b.edge) /\ a.market_id <= b.market_id

RECURSIVE OrderRows(_)
OrderRows(S) ==
    IF S = {} THEN <<>>
    ELSE LET first == CHOOSE a \in S : \A b \in S : RowBefore(a, b)
         IN  <<first>> \o OrderRows(S \ {first})

\* an open-position check that never finds a row
HasOpenPositionNever(pos, market_id, mode, side) == FALSE

\* an open-position check that compares the side with <> instead of =
HasOpenPositionOnOtherSide(pos, market_id, mode, side) ==
    \E i \in 1..Len(pos) :
        /\ pos[i].market_id = market_id
        /\ pos[i].execution_mode = mode
        /\ pos[i].side # side
        /\ pos[i].status = "open"

\* SELECT 1 FROM positions WHERE market_id, execution_mode, side match AND status = 'open'
HasOpenPosition(pos, market_id, mode, side) ==
    \E i \in 1..Len(pos) :
        /\ pos[i].market_id = market_id
        /\ pos[i].execution_mode = mode
        /\ pos[i].side = side
        /\ pos[i].status = "open"

\* a per-signal budget that ignores what the run has spent
PerSignalBudgetIgnoringSpent(remaining_budget) == max_notional_per_signal_usd

\* the per-signal budget of one row: min(max_notional_per_signal_usd, remaining_budget)
PerSignalBudget(remaining_budget) == Min(max_notional_per_signal_usd, remaining_budget)

\* the body of `for row in rows` for one row; st.stop is TRUE after `break`
ExecuteRow(st, row, mode, t) ==
    LET remaining_budget == max_daily_notional_usd - st.spent_notional
        ord == edge_to_order(row.edge, row.market_yes)
        contracts == contracts_for_notional(ord.entry_price,
                                            PerSignalBudget(remaining_budget),
                                            max_contracts_per_order)
        \* f"paper-{run_date}-{market_ticker}-{placed_orders + 1}"; the INSERT has no
        \* ON CONFLICT clause and the order reference is not treated as a key here
        order_ref == [run_date |-> Date(t), market_ticker |-> row.market_id,
                      seq |-> st.placed_orders + 1]
    IN  IF remaining_budget <= 0 THEN [st EXCEPT !.stop = TRUE]
        ELSE IF contracts <= 0 THEN st
        ELSE IF HasOpenPosition(st.positions, row.market_id, mode, ord.side) THEN st
        ELSE [st EXCEPT
                !.orders = Append(@,
                    [decision_id |-> row.decision_id, market_id |-> row.market_id,
                     execution_mode |-> mode, side |-> ord.side, contracts |-> contracts,
                     limit_price |-> ord.entry_price, status |-> "filled",
                     external_order_id |-> order_ref, created_at |-> t]),
                !.positions = Append(@,
                    [market_id |-> row.market_id, execution_mode |-> mode,
                     side |-> ord.side, entry_price |-> ord.entry_price,
                     contracts |-> contracts, opened_at |-> t, status |-> "open",
                     closed_at |-> 0, realized_pnl |-> 0]),
                !.spent_notional = @ + contracts * ord.entry_price,
                !.placed_orders = @ + 1]

RECURSIVE ExecuteRows(_, _, _, _, _)
ExecuteRows(st, rows, i, mode, t) ==
    IF i > Len(rows) \/ st.stop THEN st
    ELSE ExecuteRows(ExecuteRow(st, rows[i], mode, t), rows, i + 1, mode, t)

ExecutionResult ==
    ExecuteRows(
        [spent_notional |-> 0, placed_orders |-> 0, stop |-> FALSE,
         orders |-> orders, positions |-> positions],
        OrderRows(ExecutionRowSet(published_signals, predictions, market_snapshots,
                                  paper_edge_threshold)),
        1, execution_mode, now)

\* a mode check that lets every mode through
ExecutesInAnyMode(mode) == TRUE

\* the negation of `if settings.execution_mode != "paper": return "Execution skipped ..."`
ExecutesInMode(mode) == mode = "paper"

\* what a run in paper mode writes
ExecuteWrites ==
    LET res == ExecutionResult IN
    /\ Len(res.positions) <= MaxPositions
    /\ orders' = res.orders
    /\ positions' = res.positions

ExecutePaperTrades ==
    /\ pc = "db"
    /\ ExecutesInMode(execution_mode)
    /\ ExecuteWrites
    /\ UNCHANGED <<now, execution_mode, market_snapshots, published_signals, predictions,
                   settlements, daily_metrics, selVars, recVars, extVars, pc>>

----------------------------------------------------------------------------
(* reconcile_settlements *)

\* str(raw or "").strip().lower() on the texts the model feeds
NormalizeText(raw) ==
    CASE raw = "YES" -> "yes"
      [] raw = " no " -> "no"
      [] raw = "Settled" -> "settled"
      [] raw = " DETERMINED" -> "determined"
      [] OTHER -> raw

\* _market_result_to_bool: Some(TRUE) / Some(FALSE), or NULL for None
market_result_to_bool(raw_result) ==
    IF NormalizeText(raw_result) = "yes" THEN Some(TRUE)
    ELSE IF NormalizeText(raw_result) = "no" THEN Some(FALSE)
    ELSE NULL

FinalStatuses == {"settled", "finalized", "determined"}

\* What _fetch_market_payload gives for one candidate: it raises ("error"), or
\* returns the market object with its result, status and settlement time.
FetchChoices(t) ==
    { [kind |-> "error", result |-> "", status |-> "", settled_at |-> t],
      [kind |-> "payload", result |-> "", status |-> "active", settled_at |-> t],
      [kind |-> "payload", result |-> "yes", status |-> "active", settled_at |-> t] }
    \cup [kind : {"payload"}, result : {"yes", "no"}, status : {"finalized"},
          settled_at : {u \in 1..t : u >= t - 1}]

\* the candidate query: unsettled KXLOWT markets that are due (close_time or
\* settle_time <= NOW()) or have a prediction or a position
HasPredictionOrPosition(m) ==
    \/ \E i \in 1..Len(predictions) : predictions[i].market_id = m
    \/ \E i \in 1..Len(positions) : positions[i].market_id = m

\* a candidate query without `s.market_id IS NULL`
ReconcileCandidatesSettledToo(due) ==
    { m \in DOMAIN settlements :
        /\ IsLowTempTicker(m)
        /\ (m \in due \/ HasPredictionOrPosition(m)) }

ReconcileCandidates(due) ==
    { m \in DOMAIN settlements :
        /\ settlements[m] = NULL
        /\ IsLowTempTicker(m)
        /\ (m \in due \/ HasPredictionOrPosition(m)) }

\* a loop body that forgets the status check
SettlesMarketAnyStatus(f) ==
    /\ f.kind = "payload"
    /\ market_result_to_bool(f.result) # NULL

\* does the loop body write a settlement for this payload
SettlesMarket(f) ==
    /\ f.kind = "payload"
    /\ market_result_to_bool(f.result) # NULL
    /\ NormalizeText(f.status) \in FinalStatuses

\* a candidate loop without the per-item try/except: a failed fetch fails the run
\* and its transaction is rolled back
SettlementsAfterFailingRun(setts, candidates, fetch) ==
    IF \E m \in candidates : fetch[m].kind = "error" THEN setts
    ELSE [m \in DOMAIN setts |->
            IF m \in candidates /\ market_result_to_bool(fetch[m].result) # NULL
                                /\ NormalizeText(fetch[m].status) \in FinalStatuses
            THEN Some([settled_yes |-> market_result_to_bool(fetch[m].result)[1],
                       settled_at |-> fetch[m].settled_at])
            ELSE setts[m]]

\* the settlements table after the candidate loop
SettlementsAfter(setts, candidates, fetch) ==
    [m \in DOMAIN setts |->
        IF m \in candidates /\ SettlesMarket(fetch[m])
        THEN Some([settled_yes |-> market_result_to_bool(fetch[m].result)[1],
                   settled_at |-> fetch[m].settled_at])
        ELSE setts[m]]

MetricDates(candidates, fetch) ==
    {Date(fetch[m].settled_at) : m \in {c \in candidates : SettlesMarket(fetch[c])}}

\* a P&L CASE that pays a 'no' position on either outcome
RealizedPnlNoAlwaysPaid(side, settled_yes, entry_price, contracts) ==
    IF side = "yes" /\ settled_yes THEN (100 - entry_price) * contracts
    ELSE IF side = "yes" /\ ~settled_yes THEN (0 - entry_price) * contracts
    ELSE (100 - entry_price) * contracts

\* the CASE of _close_open_positions_for_settlements
RealizedPnl(side, settled_yes, entry_price, contracts) ==
    IF side = "yes" /\ settled_yes THEN (100 - entry_price) * contracts
    ELSE IF side = "yes" /\ ~settled_yes THEN (0 - entry_price) * contracts
    ELSE IF side = "no" /\ ~settled_yes THEN (100 - entry_price) * contracts
    ELSE IF side = "no" /\ settled_yes THEN (0 - entry_price) * contracts
    ELSE 0

\* the WHERE of the UPDATE: an open position of this mode whose market is settled
ClosesPosition(p, setts, mode) ==
    /\ setts[p.market_id] # NULL
    /\ p.execution_mode = mode
    /\ p.status = "open"

\* a close that also rewrites the entry price with the payout
ClosePositionRewritingEntry(p, s) ==
    [p EXCEPT !.status = "closed", !.closed_at = s.settled_at,
              !.entry_price = IF s.settled_yes THEN 100 ELSE 0,
              !.realized_pnl = 0]

ClosePosition(p, s) ==
    [p EXCEPT !.status = "closed",
              !.closed_at = s.settled_at,
              !.realized_pnl = RealizedPnl(p.side, s.settled_yes, p.entry_price, p.contracts)]

close_open_positions_for_settlements(pos, setts, mode) ==
    [i \in 1..Len(pos) |->
        IF ClosesPosition(pos[i], setts, mode)
        THEN ClosePosition(pos[i], setts[pos[i].market_id][1])
        ELSE pos[i]]

ClosedCount(pos, setts, mode) ==
    Cardinality({i \in 1..Len(pos) : ClosesPosition(pos[i], setts, mode)})

----------------------------------------------------------------------------
(* _upsert_daily_metrics *)

\* a LATERAL join that forgets predicted_at <= settled_at
ScoringPredictionLatest(preds, m, settled_at) ==
    LET ok == {i \in 1..Len(preds) : preds[i].market_id = m}
    IN  IF ok = {} THEN NULL
        ELSE Some(CHOOSE i \in ok : \A k \in ok : preds[k].predicted_at <= preds[i].predicted_at)

\* the prediction the LATERAL join picks for a settlement: the latest one of the
\* market with predicted_at <= settled_at (NULL when there is none)
ScoringPrediction(preds, m, settled_at) ==
    LET ok == {i \in 1..Len(preds) :
                  preds[i].market_id = m /\ preds[i].predicted_at <= settled_at}
    IN  IF ok = {} THEN NULL
        ELSE Some(CHOOSE i \in ok : \A k \in ok :
                     \/ preds[k].predicted_at < preds[i].predicted_at
                     \/ preds[k].predicted_at = preds[i].predicted_at /\ k <= i)

\* the rows of `scored` for a metric date
ScoredRows(setts, preds, metric_date) ==
    LET settled_markets ==
            {m \in DOMAIN setts : setts[m] # NULL /\ Date(setts[m][1].settled_at) = metric_date}
    IN  { [market_id |-> m,
           outcome |-> IF setts[m][1].settled_yes THEN 100 ELSE 0,
           prob_yes |-> preds[ScoringPrediction(preds, m, setts[m][1].settled_at)[1]].prob_yes,
           prediction_id |-> ScoringPrediction(preds, m, setts[m][1].settled_at)[1]] :
          m \in {x \in settled_markets :
                    ScoringPrediction(preds, x, setts[x][1].settled_at) # NULL} }

\* SUM(realized_pnl) over the positions with index in idx
RECURSIVE PnlOf(_, _)
PnlOf(pos, idx) ==
    IF idx = {} THEN 0
    ELSE LET i == CHOOSE k \in idx : TRUE
         IN  pos[i].realized_pnl + PnlOf(pos, idx \ {i})

\* the numerators of AVG(POWER(prob_yes - outcome, 2)) and AVG(ABS(prob_yes - outcome))
RECURSIVE SumSquaredError(_)
SumSquaredError(scored) ==
    IF scored = {} THEN 0
    ELSE LET r == CHOOSE x \in scored : TRUE
         IN  (r.prob_yes - r.outcome) * (r.prob_yes - r.outcome)
                + SumSquaredError(scored \ {r})

RECURSIVE SumAbsError(_)
SumAbsError(scored) ==
    IF scored = {} THEN 0
    ELSE LET r == CHOOSE x \in scored : TRUE
         IN  Abs(r.prob_yes - r.outcome) + SumAbsError(scored \ {r})

\* closed positions of the mode closed on a day in `days`
ClosedOn(pos, mode, days) ==
    {i \in 1..Len(pos) :
        /\ pos[i].execution_mode = mode
        /\ pos[i].status = "closed"
        /\ Date(pos[i].closed_at) \in days}

GrossPnl(pos, mode, metric_date) == PnlOf(pos, ClosedOn(pos, mode, {metric_date}))

\* daily / equity / drawdown CTEs: equity is the running sum of daily P&L over the
\* days that have closed positions, drawdown the running maximum of equity minus equity
MaxDrawdown(pos, mode, metric_date) ==
    LET days == {Date(pos[i].closed_at) : i \in ClosedOn(pos, mode, 1..metric_date)}
        equity(d) == PnlOf(pos, ClosedOn(pos, mode, 1..d))
        peak(d) == CHOOSE e \in {equity(x) : x \in {y \in days : y <= d}} :
                      \A x \in {y \in days : y <= d} : equity(x) <= e
        dds == {peak(d) - equity(d) : d \in days}
    IN  IF dds = {} THEN 0
        ELSE CHOOSE v \in dds : \A w \in dds : w <= v

\* the row written for (metric_date, mode).  An average is kept as its numerator
\* and count; log_loss is kept as the scored rows it averages over.
MetricRow(setts, preds, pos, mode, metric_date) ==
    LET scored == ScoredRows(setts, preds, metric_date)
        gross_pnl == GrossPnl(pos, mode, metric_date)
    IN  [brier_score |-> IF scored = {} THEN NULL
                         ELSE Some([sum |-> SumSquaredError(scored), n |-> Cardinality(scored)]),
         log_loss |-> IF scored = {} THEN NULL
                      ELSE Some({[prob_yes |-> r.prob_yes, outcome |-> r.outcome,
                                  market_id |-> r.market_id] : r \in scored}),
         calibration_error |-> IF scored = {} THEN NULL
                         ELSE Some([sum |-> SumAbsError(scored), n |-> Cardinality(scored)]),
         gross_pnl |-> gross_pnl,
         net_pnl |-> gross_pnl,
         max_drawdown |-> MaxDrawdown(pos, mode, metric_date)]

\* a run that refreshes the run date's row whether or not it closed a position
UpsertDatesAlwaysRunDate(metric_dates, closed_positions, run_date) ==
    metric_dates \cup {run_date}

\* the dates the run upserts: every metric date, and the run date when it closed a position
UpsertDates(metric_dates, closed_positions, run_date) ==
    metric_dates \cup (IF closed_positions > 0 /\ run_date \notin metric_dates
                       THEN {run_date} ELSE {})

MetricsAfter(metrics, dates, setts, preds, pos, mode) ==
    [k \in DOMAIN metrics |->
        IF k[1] \in dates /\ k[2] = mode
        THEN Some(MetricRow(setts, preds, pos, mode, k[1]))
        ELSE metrics[k]]

\* what a reconcile run that commits writes
ReconcileWrites ==
    \E due \in SUBSET {m \in LiveMarkets : ~HasPredictionOrPosition(m)} :
        LET candidates == ReconcileCandidates(due) IN
        \E fetch \in [candidates -> FetchChoices(now)] :
           LET setts == SettlementsAfter(settlements, candidates, fetch)
               closed == ClosedCount(positions, setts, execution_mode)
               pos == close_open_positions_for_settlements(positions, setts, execution_mode)
               dates == UpsertDates(MetricDates(candidates, fetch), closed, Date(now))
           IN  /\ settlements' = setts
               /\ positions' = pos
               /\ daily_metrics' = MetricsAfter(daily_metrics, dates, setts, predictions,
                                                pos, execution_mode)

ReconcileSettlements ==
    /\ pc = "db"
    /\ ReconcileWrites
    /\ UNCHANGED <<now, execution_mode, market_snapshots, published_signals, predictions,
                   orders, selVars, recVars, extVars, pc>>

----------------------------------------------------------------------------

Next ==
    \/ IngestSnapshot
    \/ PublishLive
    \/ PublishDemoFallback
    \/ ExecutePaperTrades
    \/ ReconcileSettlements

Spec == Init /\ [][Next]_vars

----------------------------------------------------------------------------
(* The selector on its own: every ranked candidate list up to MaxCands over *)
(* three cities, every limit and every per-city cap in range.               *)

Cities == {"LAX", "AUS", "PHIL"}

CandidateLists == UNION {[1..n -> Cities] : n \in 0..MaxCands}

InitSelect ==
    /\ now = 1
    /\ execution_mode = "paper"
    /\ market_snapshots = [m \in AllMarkets |-> NoSnapshot]
    /\ published_signals = <<>>
    /\ predictions = <<>>
    /\ orders = <<>>
    /\ positions = <<>>
    /\ settlements = [m \in AllMarkets |-> NULL]
    /\ daily_metrics = [k \in {Date(t) : t \in 1..MaxTime} \X ExecutionModes |-> NULL]
    /\ cands \in CandidateLists
    /\ limit \in (0 - 1)..MaxLimit
    /\ max_per_city \in 0..MaxCap
    /\ selected = <<>>
    /\ upstream = <<>>
    /\ summary = <<>>
    /\ backtest_rows = {}
    /\ steps = <<>>
    /\ invoked = <<>>
    /\ runs = <<>>
    /\ input = <<>>
    /\ output = <<>>
    /\ pc = "input"

RunSelect ==
    /\ pc = "input"
    /\ selected' = select_diversified_signals(cands, limit, max_per_city)
    /\ pc' = "done"
    /\ UNCHANGED <<dbVars, cands, limit, max_per_city, recVars, extVars>>

NextSelect == RunSelect

SpecSelect == InitSelect /\ [][NextSelect]_vars

----------------------------------------------------------------------------
(* Reconciliation on its own: two reconcile runs over a database holding   *)
(* predictions and open paper positions on two KXLOWT markets whose close  *)
(* time has passed, against every upstream answer; the second run sees the *)
(* same upstream or one where a market's payload has changed.              *)

ReconcileMarkets == LowTempMarkets

\* What GET /markets/<ticker> answers: the request raises ("error"), or the
\* market object comes back with result, status and settlement_ts.
UpstreamPayloads ==
    { [kind |-> "error", result |-> "", status |-> "", settled_at |-> 1],
      [kind |-> "payload", result |-> "", status |-> "active", settled_at |-> 1],
      [kind |-> "payload", result |-> "yes", status |-> "active", settled_at |-> 1],
      [kind |-> "payload", result |-> "void", status |-> "finalized", settled_at |-> 1],
      [kind |-> "payload", result |-> "YES", status |-> " DETERMINED", settled_at |-> 1],
      [kind |-> "payload", result |-> " no ", status |-> "Settled", settled_at |-> MaxTime - 1] }
    \cup [kind : {"payload"}, result : {"yes"}, status : {"finalized"},
          settled_at : 1..(MaxTime - 1)]

\* the elements of a set of integers in ascending order
RECURSIVE Ascending(_)
Ascending(S) ==
    IF S = {} THEN <<>>
    ELSE LET least == CHOOSE x \in S : \A y \in S : x <= y
         IN  <<least>> \o Ascending(S \ {least})

\* predictions rows: market 1 was predicted at the times in t1, market 2 at the
\* times in t2; rows are in insertion (time) order and carry a prob_yes that
\* tells the predictions of a market apart
PredictionRows(t1, t2) ==
    LET keys == Ascending({10 * t + 1 : t \in t1} \cup {10 * t + 2 : t \in t2})
    IN  [i \in 1..Len(keys) |->
            [model_run_id |-> i, market_id |-> keys[i] % 10,
             prob_yes |-> 10 + 20 * (keys[i] \div 10), predicted_at |-> keys[i] \div 10]]

\* one open paper position (and its filled order) per market with a side in c
PositionRows(c, t) ==
    LET ms == Ascending({m \in DOMAIN c : c[m] # "none"})
    IN  [i \in 1..Len(ms) |->
            [market_id |-> ms[i], execution_mode |-> "paper", side |-> c[ms[i]],
             entry_price |-> 40, contracts |-> 2, opened_at |-> t, status |-> "open",
             closed_at |-> 0, realized_pnl |-> 0]]

OrderRowsOf(pos, preds) ==
    [i \in 1..Len(pos) |->
        [decision_id |-> (CHOOSE k \in 1..Len(preds) : preds[k].market_id = pos[i].market_id),
         market_id |-> pos[i].market_id, execution_mode |-> pos[i].execution_mode,
         side |-> pos[i].side, contracts |-> pos[i].contracts,
         limit_price |-> pos[i].entry_price, status |-> "filled",
         external_order_id |-> [run_date |-> Date(pos[i].opened_at),
                                market_ticker |-> pos[i].market_id, seq |-> i],
         created_at |-> pos[i].opened_at]]

InitReconcile ==
    /\ now = MaxTime - 1
    /\ execution_mode = "paper"
    /\ market_snapshots = [m \in ReconcileMarkets |-> NoSnapshot]
    /\ published_signals = <<>>
    /\ \E t1 \in SUBSET (1..(MaxTime - 1)), t2 \in SUBSET {1} :
          /\ predictions = PredictionRows(t1, t2)
          /\ \E c \in [ReconcileMarkets -> {"none", "yes", "no"}] :
                \* a position needs a prediction of its market
                /\ c[1] # "none" => t1 # {}
                /\ c[2] # "none" => t2 # {}
                /\ positions = PositionRows(c, MaxTime - 1)
                /\ orders = OrderRowsOf(positions, predictions)
    /\ settlements = [m \in ReconcileMarkets |-> NULL]
    /\ daily_metrics = [k \in {Date(t) : t \in 1..MaxTime} \X ExecutionModes |-> NULL]
    /\ cands = <<>>
    /\ limit = 0
    /\ max_per_city = 0
    /\ selected = <<>>
    /\ upstream \in [ReconcileMarkets -> UpstreamPayloads]
    /\ summary = <<>>
    /\ backtest_rows = {}
    /\ steps = <<>>
    /\ invoked = <<>>
    /\ runs = <<>>
    /\ input = <<>>
    /\ output = <<>>
    /\ pc = "rc_first"

\* SettlementReconcileSummary of a run
SummaryOf(candidates, fetch, closed, dates) ==
    [checked_markets |-> Cardinality(candidates),
     settled_markets |-> Cardinality({m \in candidates : SettlesMarket(fetch[m])}),
     closed_positions |-> closed,
     metrics_days_written |-> Cardinality(dates),
     fetch_failures |-> Cardinality({m \in candidates : fetch[m].kind = "error"})]

\* one reconcile_settlements run at `now`; every market's close time has passed
RunReconcile ==
    /\ pc \in {"rc_first", "rc_ran", "rc_changed"}
    /\ LET candidates == ReconcileCandidates(ReconcileMarkets)
           fetch == [m \in candidates |-> upstream[m]]
           setts == SettlementsAfter(settlements, candidates, fetch)
           closed == ClosedCount(positions, setts, execution_mode)
           pos == close_open_positions_for_settlements(positions, setts, execution_mode)
           dates == UpsertDates(MetricDates(candidates, fetch), closed, Date(now))
       IN  /\ settlements' = setts
           /\ positions' = pos
           /\ daily_metrics' = MetricsAfter(daily_metrics, dates, setts, predictions,
                                            pos, execution_mode)
           /\ summary' = Some(SummaryOf(candidates, fetch, closed, dates))
    /\ now' = Min(now + 1, MaxTime)
    /\ pc' = CASE pc = "rc_first" -> "rc_ran"
               [] pc = "rc_ran" -> "rc_reran"
               [] pc = "rc_changed" -> "rc_reran_changed"
    /\ UNCHANGED <<execution_mode, market_snapshots, published_signals, predictions,
                   orders, selVars, upstream, backtest_rows, extVars>>

\* between the runs the upstream answer for one market changes
UpstreamChanges ==
    /\ pc = "rc_ran"
    /\ \E m \in ReconcileMarkets, f \in UpstreamPayloads :
          /\ f # upstream[m]
          /\ SettlesMarket(f) \/ f.kind = "error"
          /\ upstream' = [upstream EXCEPT ![m] = f]
    /\ pc' = "rc_changed"
    /\ UNCHANGED <<dbVars, selVars, summary, backtest_rows, extVars>>

\* write_backtest_report(run_date, days=60)
backtest_window_days == 60

\* _load_backtest_rows: settlements of the window joined to the predictions of
\* their market made at or before the settlement time, ranked within the market
\* by predicted_at DESC, rank 1 kept.  (The market price column is left out.)
load_backtest_rows(setts, preds, today) ==
    LET since_date == today - Max(backtest_window_days - 1, 0)
        joined == { <<m, i>> \in (DOMAIN setts) \X (1..Len(preds)) :
                      /\ setts[m] # NULL
                      /\ preds[i].market_id = m
                      /\ preds[i].predicted_at <= setts[m][1].settled_at
                      /\ Date(setts[m][1].settled_at) >= since_date }
        rn(j) == 1 + Cardinality({k \in joined :
                        /\ k[1] = j[1]
                        /\ \/ preds[k[2]].predicted_at > preds[j[2]].predicted_at
                           \/ /\ preds[k[2]].predicted_at = preds[j[2]].predicted_at
                              /\ k[2] > j[2]})
    IN  { [market_id |-> j[1], settled_at |-> setts[j[1]][1].settled_at,
           outcome_yes |-> IF setts[j[1]][1].settled_yes THEN 100 ELSE 0,
           model_prob_yes |-> preds[j[2]].prob_yes] :
          j \in {x \in joined : rn(x) = 1} }

\* the backtest step that follows reconciliation in the pipeline
WriteBacktestReport ==
    /\ pc \in {"rc_reran", "rc_reran_changed"}
    /\ backtest_rows' = load_backtest_rows(settlements, predictions, Date(now))
    /\ pc' = "rc_reported"
    /\ UNCHANGED <<dbVars, selVars, upstream, summary, extVars>>

NextReconcile == RunReconcile \/ UpstreamChanges \/ WriteBacktestReport

SpecReconcile == InitReconcile /\ [][NextReconcile]_vars

----------------------------------------------------------------------------
(* DailyPipeline.run: the nine steps in order, each through _run_step. *)

PipelineSteps ==
    << "ingest_data", "reconcile_market_outcomes", "evaluate_backtest", "build_features",
       "train_and_calibrate", "score_and_decide", "simulate_execution", "update_bot_intel",
       "publish_signal_snapshot" >>

\* What calling a step's method can do: return the message of the work done
\* ("complete"), return a "... skipped: ..." message after its own except clause
\* caught the error, or raise.  build_features and train_and_calibrate catch
\* Exception and score_and_decide calls nothing, so they never raise; the other
\* methods catch one error class only (an AttributeError, OSError or ValueError
\* of the called code passes through).
StepOutcomes(name) ==
    IF name = "score_and_decide" THEN {"complete"}
    ELSE IF name \in {"build_features", "train_and_calibrate"} THEN {"complete", "skipped"}
    ELSE {"complete", "skipped", "raises"}

\* _run_step: record "ok" with the message, or record "error" and re-raise
RunStepResult(name, outcome) ==
    [step |-> name,
     status |-> IF outcome = "raises" THEN "error" ELSE "ok",
     message |-> outcome]

InitPipeline ==
    /\ now = 1
    /\ execution_mode = "paper"
    /\ market_snapshots = [m \in AllMarkets |-> NoSnapshot]
    /\ published_signals = <<>>
    /\ predictions = <<>>
    /\ orders = <<>>
    /\ positions = <<>>
    /\ settlements = [m \in AllMarkets |-> NULL]
    /\ daily_metrics = [k \in {Date(t) : t \in 1..MaxTime} \X ExecutionModes |-> NULL]
    /\ cands = <<>>
    /\ limit = 0
    /\ max_per_city = 0
    /\ selected = <<>>
    /\ upstream = <<>>
    /\ summary = <<>>
    /\ backtest_rows = {}
    /\ steps = <<>>
    /\ invoked = <<>>
    /\ runs = <<>>
    /\ input = <<>>
    /\ output = <<>>
    /\ pc = "pipe_run"

\* the next self._run_step(...) line of run(); an exception leaves run(), the
\* last step is followed by _write_summary
PipelineStep ==
    /\ pc = "pipe_run"
    /\ LET name == PipelineSteps[Len(invoked) + 1] IN
       \E outcome \in StepOutcomes(name) :
          /\ invoked' = Append(invoked, name)
          /\ steps' = Append(steps, RunStepResult(name, outcome))
          /\ pc' = IF outcome = "raises" THEN "pipe_raised"
                   ELSE IF Len(invoked) + 1 = Len(PipelineSteps) THEN "pipe_done"
                   ELSE "pipe_run"
    /\ UNCHANGED <<dbVars, selVars, recVars, runs, fnVars>>

NextPipeline == PipelineStep

SpecPipeline == InitPipeline /\ [][NextPipeline]_vars

----------------------------------------------------------------------------
(* Two execute_paper_trades runs against one database.  Each run is one    *)
(* transaction (get_connection commits when the with-block ends) under     *)
(* PostgreSQL's default READ COMMITTED isolation: a statement sees the     *)
(* committed rows and the rows its own transaction has inserted.  A run    *)
(* takes one step for the SELECT of its rows, one per row of the loop and  *)
(* one for the commit.                                                     *)

Runs == {1, 2}

\* the locals of a run that has not started
IdleRun ==
    [pc |-> "idle", queried |-> FALSE, rows |-> <<>>, i |-> 1,
     spent_notional |-> 0, placed_orders |-> 0, stop |-> FALSE,
     new_orders |-> <<>>, new_positions |-> <<>>, result |-> "", overlapped |-> FALSE]

\* a positions table of which a transaction sees only its own inserts
VisiblePositionsOwnOnly(committed, pending) == pending

\* the positions rows a statement of a transaction sees
VisiblePositions(committed, pending) == committed \o pending

\* a database with an active signal on live market 1 (model 50), possibly an
\* active demo signal (model 61 against 54), the latest quotes, and possibly an
\* open paper position on market 1
InitConcurrent ==
    /\ now = 1
    /\ execution_mode \in ExecutionModes
    /\ \E ms \in SnapshotChoices :
          market_snapshots = [m \in AllMarkets |->
                                 IF m \in LiveMarkets THEN ms
                                 ELSE IF m = DemoMarket(1) THEN DemoSnapshot
                                 ELSE NoSnapshot]
    /\ predictions =
          << [model_run_id |-> 1, market_id |-> 1, prob_yes |-> 50, predicted_at |-> 1],
             [model_run_id |-> 2, market_id |-> DemoMarket(1), prob_yes |-> 61,
              predicted_at |-> 1] >>
    /\ \E demo_active \in BOOLEAN :
          published_signals =
             << [market_id |-> 1, model_run_id |-> 1, is_active |-> TRUE, published_at |-> 1],
                [market_id |-> DemoMarket(1), model_run_id |-> 2, is_active |-> demo_active,
                 published_at |-> 1] >>
    /\ \E held \in {"none", "yes", "no"} :
          /\ positions = PositionRows([m \in LiveMarkets |-> held], 1)
          /\ orders = OrderRowsOf(positions, predictions)
    /\ settlements = [m \in AllMarkets |-> NULL]
    /\ daily_metrics = [k \in {Date(t) : t \in 1..MaxTime} \X ExecutionModes |-> NULL]
    /\ cands = <<>>
    /\ limit = 0
    /\ max_per_city = 0
    /\ selected = <<>>
    /\ upstream = <<>>
    /\ summary = <<>>
    /\ backtest_rows = {}
    /\ steps = <<>>
    /\ invoked = <<>>
    /\ runs = [r \in Runs |-> IdleRun]
    /\ input = <<>>
    /\ output = <<>>
    /\ pc = "conc"

\* the mode check and, in paper mode, the SELECT of the rows
BeginRun(r) ==
    /\ pc = "conc"
    /\ runs[r].pc = "idle"
    /\ IF ~ExecutesInMode(execution_mode)
       THEN runs' = [runs EXCEPT ![r].pc = "done", ![r].result = "skipped"]
       ELSE runs' = [q \in Runs |->
                IF q = r
                THEN [runs[r] EXCEPT
                        !.pc = "loop",
                        !.queried = TRUE,
                        !.rows = OrderRows(ExecutionRowSet(published_signals, predictions,
                                                           market_snapshots,
                                                           paper_edge_threshold)),
                        !.overlapped = \E o \in Runs \ {r} : runs[o].pc = "loop"]
                ELSE [runs[q] EXCEPT !.overlapped = @ \/ runs[q].pc = "loop"]]
    /\ UNCHANGED <<dbVars, selVars, recVars, pipeVars, fnVars, pc>>

\* one pass through the body of `for row in rows`
StepRow(r) ==
    /\ pc = "conc"
    /\ runs[r].pc = "loop"
    /\ runs[r].i <= Len(runs[r].rows)
    /\ ~runs[r].stop
    /\ LET visible == VisiblePositions(positions, runs[r].new_positions)
           st == [spent_notional |-> runs[r].spent_notional,
                  placed_orders |-> runs[r].placed_orders,
                  stop |-> FALSE,
                  orders |-> orders \o runs[r].new_orders,
                  positions |-> visible]
           res == ExecuteRow(st, runs[r].rows[runs[r].i], execution_mode, now)
       IN  runs' = [runs EXCEPT
                ![r].i = @ + 1,
                ![r].spent_notional = res.spent_notional,
                ![r].placed_orders = res.placed_orders,
                ![r].stop = res.stop,
                ![r].new_orders =
                    @ \o SubSeq(res.orders, Len(st.orders) + 1, Len(res.orders)),
                ![r].new_positions =
                    @ \o SubSeq(res.positions, Len(visible) + 1, Len(res.positions))]
    /\ UNCHANGED <<dbVars, selVars, recVars, pipeVars, fnVars, pc>>

\* the loop is over: the with-block ends and the transaction commits
CommitRun(r) ==
    /\ pc = "conc"
    /\ runs[r].pc = "loop"
    /\ runs[r].i > Len(runs[r].rows) \/ runs[r].stop
    /\ orders' = orders \o runs[r].new_orders
    /\ positions' = positions \o runs[r].new_positions
    /\ runs' = [runs EXCEPT ![r].pc = "done", ![r].result = "complete",
                            ![r].new_orders = <<>>, ![r].new_positions = <<>>]
    /\ UNCHANGED <<now, execution_mode, market_snapshots, published_signals, predictions,
                   settlements, daily_metrics, selVars, recVars, pipeVars, fnVars, pc>>

NextConcurrent == \E r \in Runs : BeginRun(r) \/ StepRow(r) \/ CommitRun(r)

SpecConcurrent == InitConcurrent /\ [][NextConcurrent]_vars

----------------------------------------------------------------------------
(* _evaluate_low_temp_market_candidate as a function of what it reads.     *)
(* Probabilities are in cents; a confidence is in hundredths of a cent     *)
(* (0.55 is 5500), so abs(prob_yes - market_implied_yes) * 1.5 is          *)
(* 150 * |difference in cents|.                                            *)

clamp(value, low, high) == Max(low, Min(high, value))

\* values of _condition_probability (a normal CDF), before the clamp
ConditionProbabilities == {0, 1, 30, 50, 99, 100}

\* market_implied_yes of the market query: the mid, the last price or 0.50
MarketImpliedChoices == {0, 40, 50, 70, 100}

\* model["samples"] of the trained model, when there is one
SampleChoices == {0, 25, 50, 400}

EvaluateInputs ==
    [ condition_parsable : BOOLEAN,          \* _parse_low_temp_condition(title) is not None
      threshold_in_ticker : BOOLEAN,         \* the ticker ends in -T<number>
      city_code : {"", "NYC"},
      forecast : {NULL} \cup {Some(p) : p \in ConditionProbabilities},
      model : {NULL} \cup {Some(s) : s \in SampleChoices},
      market_implied_yes : MarketImpliedChoices ]

\* the forecast branch: clamped model probability and confidence
ForecastCandidate(raw_prob, market_implied_yes, model) ==
    LET prob_yes == clamp(raw_prob, 1, 99)
        sample_bonus == IF model # NULL THEN Min(1000, model[1] * 20) ELSE 0
    IN  [prob_yes |-> prob_yes,
         confidence |-> clamp(6000 + Min(2500, Abs(prob_yes - market_implied_yes) * 150)
                                + sample_bonus, 5500, 9700)]

\* a fallback that clamps the mirrored price like a model probability
FallbackCandidateClamped(market_implied_yes) ==
    [prob_yes |-> clamp(market_implied_yes, 1, 99), confidence |-> 5500]

\* the else branch: prob_yes = market_implied_yes, confidence = 0.55
FallbackCandidate(market_implied_yes) ==
    [prob_yes |-> market_implied_yes, confidence |-> 5500]

\* None, or the candidate dict (the fields the publish step reads)
evaluate_low_temp_market_candidate(inp) ==
    IF ~inp.condition_parsable /\ ~inp.threshold_in_ticker THEN NULL
    ELSE IF inp.city_code = "" THEN NULL
    ELSE LET has_forecast == inp.forecast # NULL
             c == IF has_forecast
                  THEN ForecastCandidate(inp.forecast[1], inp.market_implied_yes, inp.model)
                  ELSE FallbackCandidate(inp.market_implied_yes)
         IN  Some([prob_yes |-> c.prob_yes,
                   market_implied_yes |-> inp.market_implied_yes,
                   edge |-> c.prob_yes - inp.market_implied_yes,
                   confidence |-> c.confidence,
                   has_forecast |-> has_forecast])

InitEvaluate ==
    /\ now = 1
    /\ execution_mode = "paper"
    /\ market_snapshots = [m \in AllMarkets |-> NoSnapshot]
    /\ published_signals = <<>>
    /\ predictions = <<>>
    /\ orders = <<>>
    /\ positions = <<>>
    /\ settlements = [m \in AllMarkets |-> NULL]
    /\ daily_metrics = [k \in {Date(t) : t \in 1..MaxTime} \X ExecutionModes |-> NULL]
    /\ cands = <<>>
    /\ limit = 0
    /\ max_per_city = 0
    /\ selected = <<>>
    /\ upstream = <<>>
    /\ summary = <<>>
    /\ backtest_rows = {}
    /\ steps = <<>>
    /\ invoked = <<>>
    /\ runs = <<>>
    /\ input \in EvaluateInputs
    /\ output = NULL
    /\ pc = "eval_input"

Evaluate ==
    /\ pc = "eval_input"
    /\ output' = evaluate_low_temp_market_candidate(input)
    /\ pc' = "eval_done"
    /\ UNCHANGED <<dbVars, selVars, recVars, pipeVars, runs, input>>

NextEvaluate == Evaluate

SpecEvaluate == InitEvaluate /\ [][NextEvaluate]_vars

----------------------------------------------------------------------------
(* list_signal_playbook for one signal: action, entry price, suggested     *)
(* notional and contracts.  Edge and prices are in cents, a confidence in  *)
(* hundredths of a cent (0.58 is 5800), notionals in cents of a dollar.    *)

\* an action derivation that does not look at the confidence
derive_playbook_action_ignoring_confidence(edge, confidence, edge_threshold) ==
    IF edge >= edge_threshold THEN "lean_yes"
    ELSE IF edge <= -edge_threshold THEN "lean_no"
    ELSE "pass"

derive_playbook_action(edge, confidence, edge_threshold) ==
    IF confidence < 5800 THEN "pass"
    ELSE IF edge >= edge_threshold THEN "lean_yes"
    ELSE IF edge <= -edge_threshold THEN "lean_no"
    ELSE "pass"

playbook_entry_price(action, market_yes) ==
    LET clamped_yes == clamp(market_yes, 1, 99)
    IN  IF action = "lean_no" THEN clamp(100 - clamped_yes, 1, 99) ELSE clamped_yes

\* max_notional * (0.35 + 0.65 * confidence_weight * edge_weight) as the exact
\* fraction num / den of a notional in cents
suggested_notional(action, confidence, edge, max_notional, edge_threshold) ==
    IF action = "pass" THEN [num |-> 0, den |-> 1]
    ELSE IF max_notional <= 0 THEN [num |-> 0, den |-> 1]
    ELSE LET weight_den == Max(edge_threshold * 2, 1)
             confidence_weight == clamp(confidence - 5500, 0, 4000)    \* over 4000
             edge_weight == clamp(Abs(edge), 0, weight_den)            \* over weight_den
         IN  [num |-> max_notional * (35 * 4000 * weight_den
                                       + 65 * confidence_weight * edge_weight),
              den |-> 100 * 4000 * weight_den]

\* round(suggested_notional, 2): the nearest cent, ties to the even cent
round_to_cent(x) ==
    LET q == x.num \div x.den
        r == x.num % x.den
    IN  IF 2 * r > x.den THEN q + 1
        ELSE IF 2 * r = x.den THEN q + (q % 2)
        ELSE q

\* _contracts_for_notional of signals_repo.py, on a notional num / den
playbook_contracts_for_notional(entry_price, max_notional, max_contracts) ==
    IF entry_price <= 0 \/ max_notional.num <= 0 \/ max_contracts <= 0
    THEN 0
    ELSE LET affordable == max_notional.num \div (max_notional.den * entry_price)
         IN  Max(0, Min(affordable, max_contracts))

PlaybookInputs ==
    [ edge : {-8, -3, -2, 0, 2, 3, 8, 20},
      confidence : {5000, 5500, 5799, 5800, 7000, 9700},
      market_implied_yes : {0, 37, 50, 100},
      \* settings: the configured values, a zero threshold and a zero notional cap
      edge_threshold : {0, paper_edge_threshold},
      max_notional : {0, max_notional_per_signal_usd} ]

\* the PlaybookSignal fields computed for a signal
playbook_signal(inp) ==
    LET action == derive_playbook_action(inp.edge, inp.confidence, inp.edge_threshold)
        entry_price == playbook_entry_price(action, inp.market_implied_yes)
        notional == suggested_notional(action, inp.confidence, inp.edge,
                                       inp.max_notional, inp.edge_threshold)
    IN  [action |-> action,
         entry_price |-> entry_price,
         suggested_notional |-> notional,
         suggested_notional_usd |-> round_to_cent(notional),
         suggested_contracts |->
             playbook_contracts_for_notional(entry_price, notional, max_contracts_per_order)]

InitPlaybook ==
    /\ now = 1
    /\ execution_mode = "paper"
    /\ market_snapshots = [m \in AllMarkets |-> NoSnapshot]
    /\ published_signals = <<>>
    /\ predictions = <<>>
    /\ orders = <<>>
    /\ positions = <<>>
    /\ settlements = [m \in AllMarkets |-> NULL]
    /\ daily_metrics = [k \in {Date(t) : t \in 1..MaxTime} \X ExecutionModes |-> NULL]
    /\ cands = <<>>
    /\ limit = 0
    /\ max_per_city = 0
    /\ selected = <<>>
    /\ upstream = <<>>
    /\ summary = <<>>
    /\ backtest_rows = {}
    /\ steps = <<>>
    /\ invoked = <<>>
    /\ runs = <<>>
    /\ input \in PlaybookInputs
    /\ output = NULL
    /\ pc = "pb_input"

BuildPlaybook ==
    /\ pc = "pb_input"
    /\ output' = Some(playbook_signal(input))
    /\ pc' = "pb_done"
    /\ UNCHANGED <<dbVars, selVars, recVars, pipeVars, runs, input>>

NextPlaybook == BuildPlaybook

SpecPlaybook == InitPlaybook /\ [][NextPlaybook]_vars

----------------------------------------------------------------------------
(* The sizing and side helpers called on their own: _contracts_for_notional *)
(* in its two copies, and _edge_to_order next to the playbook's action and  *)
(* entry price for the same edge and market price.                          *)

\* the tables and locals a function call does not touch
NoTables ==
    /\ now = 1
    /\ execution_mode = "paper"
    /\ market_snapshots = [m \in AllMarkets |-> NoSnapshot]
    /\ published_signals = <<>>
    /\ predictions = <<>>
    /\ orders = <<>>
    /\ positions = <<>>
    /\ settlements = [m \in AllMarkets |-> NULL]
    /\ daily_metrics = [k \in {Date(t) : t \in 1..MaxTime} \X ExecutionModes |-> NULL]
    /\ cands = <<>>
    /\ limit = 0
    /\ max_per_city = 0
    /\ selected = <<>>
    /\ upstream = <<>>
    /\ summary = <<>>
    /\ backtest_rows = {}
    /\ steps = <<>>
    /\ invoked = <<>>
    /\ runs = <<>>

ContractsInputs ==
    [ fn : {"contracts_for_notional"},
      entry_price : {-1, 0, 1, 32, 40, 99},
      max_notional : {-5, 0, 31, 32, 80, 110, 30000},
      max_contracts : {-1, 0, 1, 2, 12} ]

OrderInputs ==
    [ fn : {"edge_to_order"},
      edge : {-8, -3, 0, 3, 8},
      market_yes : {0, 41, 50, 100},
      confidence : {5500, 7000},
      edge_threshold : {0, paper_edge_threshold} ]

InitHelpers ==
    /\ NoTables
    /\ input \in ContractsInputs \cup OrderInputs
    /\ output = NULL
    /\ pc = "call"

\* both copies of _contracts_for_notional on the same arguments
CallContractsForNotional ==
    /\ pc = "call"
    /\ input.fn = "contracts_for_notional"
    /\ output' = Some(
          [paper |-> contracts_for_notional(input.entry_price, input.max_notional,
                                            input.max_contracts),
           playbook |-> playbook_contracts_for_notional(
                            input.entry_price, [num |-> input.max_notional, den |-> 1],
                            input.max_contracts)])
    /\ pc' = "contracts_done"
    /\ UNCHANGED <<dbVars, selVars, recVars, pipeVars, runs, input>>

\* _edge_to_order, and the playbook's action and entry price
CallEdgeToOrder ==
    /\ pc = "call"
    /\ input.fn = "edge_to_order"
    /\ LET action == derive_playbook_action(input.edge, input.confidence,
                                            input.edge_threshold)
       IN  output' = Some(
              [order |-> edge_to_order(input.edge, input.market_yes),
               action |-> action,
               playbook_price |-> playbook_entry_price(action, input.market_yes)])
    /\ pc' = "order_done"
    /\ UNCHANGED <<dbVars, selVars, recVars, pipeVars, runs, input>>

NextHelpers == CallContractsForNotional \/ CallEdgeToOrder

SpecHelpers == InitHelpers /\ [][NextHelpers]_vars

----------------------------------------------------------------------------
(* Condition resolution of _evaluate_low_temp_market_candidate.  A title   *)
(* is a sequence of tokens: a number, "-", "<", ">" or other text ("w");   *)
(* re.search finds the leftmost place where a pattern's tokens follow each *)
(* other (white space between them is allowed by the patterns).            *)

MaxTitleLen == 4

Num(n) == [t |-> "num", v |-> n]
Tok(s) == [t |-> s, v |-> 0]

TitleTokens == {Num(40), Num(45), Tok("-"), Tok("<"), Tok(">"), Tok("w")}

Titles == UNION {[1..n -> TitleTokens] : n \in 0..MaxTitleLen}

\* places where <number> - <number> starts
RangeMatches(title) ==
    {i \in 1..(Len(title) - 2) :
        title[i].t = "num" /\ title[i + 1].t = "-" /\ title[i + 2].t = "num"}

\* places where <sign> <number> starts
SignMatches(title, sign) ==
    {i \in 1..(Len(title) - 1) : title[i].t = sign /\ title[i + 1].t = "num"}

Leftmost(S) == CHOOSE i \in S : \A j \in S : i <= j

\* _parse_low_temp_condition: None, or the condition dict
parse_low_temp_condition(title) ==
    IF RangeMatches(title) # {}
    THEN LET i == Leftmost(RangeMatches(title))
         IN  Some([kind |-> "range", low |-> title[i].v, high |-> Some(title[i + 2].v)])
    ELSE IF SignMatches(title, "<") # {}
    THEN Some([kind |-> "lt", low |-> title[Leftmost(SignMatches(title, "<")) + 1].v,
               high |-> NULL])
    ELSE IF SignMatches(title, ">") # {}
    THEN Some([kind |-> "gt", low |-> title[Leftmost(SignMatches(title, ">")) + 1].v,
               high |-> NULL])
    ELSE NULL

\* a resolution that prefers the ticker's threshold to the title
resolve_condition_ticker_first(title, threshold) ==
    IF threshold # NULL THEN Some([kind |-> "gt", low |-> threshold[1], high |-> NULL])
    ELSE parse_low_temp_condition(title)

\* the condition of a market: parsed from the title, else gt(threshold) from
\* the ticker suffix -T<number>, else None
resolve_condition(title, threshold) ==
    LET condition == parse_low_temp_condition(title)
    IN  IF condition # NULL THEN condition
        ELSE IF threshold = NULL THEN NULL
        ELSE Some([kind |-> "gt", low |-> threshold[1], high |-> NULL])

\* None, or the condition and the bounds recorded in the candidate's metadata
candidate_condition(inp) ==
    LET condition == resolve_condition(inp.title, inp.threshold)
    IN  IF condition = NULL THEN NULL
        ELSE IF inp.city_code = "" THEN NULL
        ELSE Some([condition |-> condition[1],
                   condition_low_f |-> condition[1].low,
                   condition_high_f |-> condition[1].high])

ConditionInputs ==
    [ title : Titles,
      threshold : {NULL, Some(38)},     \* _extract_temperature_threshold(market_ticker)
      city_code : {"", "NYC"} ]         \* _extract_low_temp_city_code(market_ticker)

InitCondition ==
    /\ NoTables
    /\ input \in ConditionInputs
    /\ output = NULL
    /\ pc = "cond_input"

ResolveCondition ==
    /\ pc = "cond_input"
    /\ output' = candidate_condition(input)
    /\ pc' = "cond_done"
    /\ UNCHANGED <<dbVars, selVars, recVars, pipeVars, runs, input>>

NextCondition == ResolveCondition

SpecCondition == InitCondition /\ [][NextCondition]_vars

----------------------------------------------------------------------------
(* Pipeline runs against the database: run k happens at tick k, its steps  *)
(* act on the tables in the order of DailyPipeline.run, and the next run   *)
(* starts one tick later.  A step's method returns after its work, returns *)
(* a "skipped" message after its transaction rolled back, or raises.       *)

\* the number of pipeline runs
MaxRuns == 2

\* a pipeline that publishes before it executes
StepAtPublishFirst(k) ==
    IF k = 7 THEN PipelineSteps[9]
    ELSE IF k = 9 THEN PipelineSteps[7]
    ELSE PipelineSteps[k]

\* the k-th self._run_step(...) line of run()
StepAt(k) == PipelineSteps[k]

\* run() has returned or an exception has left it
RunOver ==
    \/ Len(invoked) = Len(PipelineSteps)
    \/ steps # <<>> /\ steps[Len(steps)].status = "error"

\* the step run() calls next
IsNextStep(name) ==
    /\ pc = "daily"
    /\ ~RunOver
    /\ StepAt(Len(invoked) + 1) = name

RecordStep(name, outcome) ==
    /\ invoked' = Append(invoked, name)
    /\ steps' = Append(steps, RunStepResult(name, outcome))

InitDaily ==
    /\ NoTables
    /\ input = <<>>
    /\ output = <<>>
    /\ pc = "daily"

DailyIngest ==
    /\ IsNextStep("ingest_data")
    /\ \E m \in LiveMarkets, ms \in SnapshotChoices :
          market_snapshots' = [market_snapshots EXCEPT ![m] = ms]
    /\ RecordStep("ingest_data", "complete")
    /\ UNCHANGED <<now, execution_mode, published_signals, predictions, orders, positions,
                   settlements, daily_metrics, selVars, recVars, runs, fnVars, pc>>

DailyReconcile ==
    /\ IsNextStep("reconcile_market_outcomes")
    /\ ReconcileWrites
    /\ RecordStep("reconcile_market_outcomes", "complete")
    /\ UNCHANGED <<now, execution_mode, market_snapshots, published_signals, predictions,
                   orders, selVars, recVars, runs, fnVars, pc>>

DailyExecute ==
    /\ IsNextStep("simulate_execution")
    /\ ExecutesInMode(execution_mode)
    /\ ExecuteWrites
    /\ RecordStep("simulate_execution", "complete")
    /\ UNCHANGED <<now, execution_mode, market_snapshots, published_signals, predictions,
                   settlements, daily_metrics, selVars, recVars, runs, fnVars, pc>>

DailyPublishLive ==
    /\ IsNextStep("publish_signal_snapshot")
    /\ PublishLiveWrites
    /\ RecordStep("publish_signal_snapshot", "complete")
    /\ UNCHANGED <<now, execution_mode, market_snapshots, orders, positions, settlements,
                   daily_metrics, selVars, recVars, runs, fnVars, pc>>

DailyPublishDemo ==
    /\ IsNextStep("publish_signal_snapshot")
    /\ PublishDemoWrites
    /\ RecordStep("publish_signal_snapshot", "complete")
    /\ UNCHANGED <<now, execution_mode, orders, positions, settlements,
                   daily_metrics, selVars, recVars, runs, fnVars, pc>>

\* the steps that write none of the modelled tables
DailyOtherStep ==
    /\ \E name \in {"evaluate_backtest", "build_features", "train_and_calibrate",
                    "score_and_decide", "update_bot_intel"} :
          /\ IsNextStep(name)
          /\ RecordStep(name, "complete")
    /\ UNCHANGED <<dbVars, selVars, recVars, runs, fnVars, pc>>

\* the steps that write the modelled tables
TableSteps ==
    {"ingest_data", "reconcile_market_outcomes", "simulate_execution",
     "publish_signal_snapshot"}

\* the step's transaction rolled back: its method returns "... skipped" or
\* raises (of a step that writes no modelled table only the raise is told
\* apart from its completion)
DailyStepFails ==
    /\ \E name \in Range(PipelineSteps), outcome \in {"skipped", "raises"} :
          /\ IsNextStep(name)
          /\ outcome \in StepOutcomes(name)
          /\ outcome = "skipped" => name \in TableSteps
          /\ RecordStep(name, outcome)
    /\ UNCHANGED <<dbVars, selVars, recVars, runs, fnVars, pc>>

\* the next invocation of the pipeline, one tick later
FinishRun ==
    /\ pc = "daily"
    /\ RunOver
    /\ now < Min(MaxRuns, MaxTime)
    /\ now' = now + 1
    /\ invoked' = <<>>
    /\ steps' = <<>>
    /\ UNCHANGED <<execution_mode, market_snapshots, published_signals, predictions, orders,
                   positions, settlements, daily_metrics, selVars, recVars, runs, fnVars, pc>>

NextDaily ==
    \/ DailyIngest
    \/ DailyReconcile
    \/ DailyExecute
    \/ DailyPublishLive
    \/ DailyPublishDemo
    \/ DailyOtherStep
    \/ DailyStepFails
    \/ FinishRun

SpecDaily == InitDaily /\ [][NextDaily]_vars

----------------------------------------------------------------------------
(* One execute_paper_trades run over a database with up to three active    *)
(* signals, whose rows can exhaust the daily budget and can be skipped.    *)

\* the markets in ticker order
MarketSeq == CHOOSE s \in Perms(AllMarkets) : \A i, j \in 1..Len(s) : i < j => s[i] < s[j]

Quote(bid, ask) == [bid_yes |-> Some(bid), ask_yes |-> Some(ask), last_price_yes |-> NULL]

\* the signal, prediction and latest quote of one market before the run
SignalChoices ==
    { [is_active |-> TRUE, prob_yes |-> 80, snapshot |-> Quote(39, 41)],
      [is_active |-> TRUE, prob_yes |-> 50, snapshot |-> Quote(39, 41)],
      [is_active |-> TRUE, prob_yes |-> 50, snapshot |-> Quote(59, 61)],
      [is_active |-> TRUE, prob_yes |-> 70, snapshot |-> Quote(59, 61)],
      [is_active |-> TRUE, prob_yes |-> 41, snapshot |-> Quote(39, 41)],
      [is_active |-> FALSE, prob_yes |-> 80, snapshot |-> Quote(39, 41)] }

\* the open position an earlier run left on the first market
HeldChoices == {"none", "yes", "no"}

HeldPositions(held) ==
    IF held = "none" THEN <<>>
    ELSE << [market_id |-> MarketSeq[1], execution_mode |-> "paper", side |-> held,
             entry_price |-> 40, contracts |-> 1, opened_at |-> 0, status |-> "open",
             closed_at |-> 0, realized_pnl |-> 0] >>

InitBudget ==
    /\ now = 1
    /\ execution_mode = "paper"
    /\ \E sig \in [1..Len(MarketSeq) -> SignalChoices], held \in HeldChoices :
          /\ market_snapshots = [m \in AllMarkets |->
                LET k == CHOOSE i \in 1..Len(MarketSeq) : MarketSeq[i] = m
                IN  sig[k].snapshot]
          /\ predictions = [k \in 1..Len(MarketSeq) |->
                [model_run_id |-> k, market_id |-> MarketSeq[k],
                 prob_yes |-> sig[k].prob_yes, predicted_at |-> 0]]
          /\ published_signals = [k \in 1..Len(MarketSeq) |->
                [market_id |-> MarketSeq[k], model_run_id |-> k,
                 is_active |-> sig[k].is_active, published_at |-> 0]]
          /\ positions = HeldPositions(held)
    /\ orders = <<>>
    /\ settlements = [m \in AllMarkets |-> NULL]
    /\ daily_metrics = [k \in {Date(t) : t \in 1..MaxTime} \X ExecutionModes |-> NULL]
    /\ cands = <<>>
    /\ limit = 0
    /\ max_per_city = 0
    /\ selected = <<>>
    /\ upstream = <<>>
    /\ summary = <<>>
    /\ backtest_rows = {}
    /\ steps = <<>>
    /\ invoked = <<>>
    /\ runs = <<>>
    /\ input = <<>>
    /\ output = <<>>
    /\ pc = "budget"

RunExecute ==
    /\ pc = "budget"
    /\ ExecutesInMode(execution_mode)
    /\ ExecuteWrites
    /\ pc' = "budget_done"
    /\ UNCHANGED <<now, execution_mode, market_snapshots, published_signals, predictions,
                   settlements, daily_metrics, selVars, recVars, extVars>>

NextBudget == RunExecute

SpecBudget == InitBudget /\ [][NextBudget]_vars

----------------------------------------------------------------------------
(* The transaction of one operation.  `with get_connection() as conn`      *)
(* wraps every statement of publish_live_low_temp_signals,                 *)
(* execute_paper_trades and reconcile_settlements: the statements act on   *)
(* the connection's working copy, the tables change at conn.commit(), and  *)
(* an exception at any statement reaches conn.rollback().  `runs` holds    *)
(* the open transaction.                                                   *)

\* a connection whose except clause commits what was written
RollbackKeepsWork(committed, work) == work

\* conn.rollback(): the tables as they were committed
Rollback(committed, work) == committed

\* the tables the three operations write
Tables ==
    [published_signals |-> published_signals, predictions |-> predictions,
     orders |-> orders, positions |-> positions, settlements |-> settlements,
     daily_metrics |-> daily_metrics]

SetTables(tb) ==
    /\ published_signals' = tb.published_signals
    /\ predictions' = tb.predictions
    /\ orders' = tb.orders
    /\ positions' = tb.positions
    /\ settlements' = tb.settlements
    /\ daily_metrics' = tb.daily_metrics

\* the working copy after each statement group of a live publish:
\* the UPDATE, the INSERTs into predictions, the INSERTs into published_signals
PublishStatements(batch, evals) ==
    LET s1 == [Tables EXCEPT !.published_signals = DeactivateAll(published_signals)]
        s2 == [s1 EXCEPT !.predictions = InsertPredictions(predictions, batch, evals, 1, now)]
        s3 == [s2 EXCEPT !.published_signals =
                              LiveSignalsAfter(published_signals, batch, now)]
    IN  <<s1, s2, s3>>

\* the working copy after each INSERT of an execution run: order k, then position k
ExecuteStatements(res) ==
    LET n == Len(res.orders) - Len(orders) IN
    [s \in 1..(2 * n) |->
        [Tables EXCEPT
            !.orders = SubSeq(res.orders, 1, Len(orders) + (s + 1) \div 2),
            !.positions = SubSeq(res.positions, 1, Len(positions) + s \div 2)]]

\* the working copy after the settlement upserts, the position close and the
\* metric upserts of a reconcile run
ReconcileStatements(setts, pos, metrics) ==
    LET s1 == [Tables EXCEPT !.settlements = setts]
        s2 == [s1 EXCEPT !.positions = pos]
        s3 == [s2 EXCEPT !.daily_metrics = metrics]
    IN  <<s1, s2, s3>>

OpenTx(op, statements) ==
    runs' = << [op |-> op, stage |-> 0, begin |-> Tables, statements |-> statements] >>

\* the connection's working copy
WorkOf(tx) == IF tx.stage = 0 THEN tx.begin ELSE tx.statements[tx.stage]

\* no rows but the latest quotes ingestion stored for the live markets
InitTx ==
    /\ now = 1
    /\ execution_mode = "paper"
    /\ \E quotes \in [LiveMarkets -> SnapshotChoices] :
          market_snapshots = [m \in AllMarkets |->
                                 IF m \in LiveMarkets THEN quotes[m] ELSE NoSnapshot]
    /\ published_signals = <<>>
    /\ predictions = <<>>
    /\ orders = <<>>
    /\ positions = <<>>
    /\ settlements = [m \in AllMarkets |-> NULL]
    /\ daily_metrics = [k \in {Date(t) : t \in 1..MaxTime} \X ExecutionModes |-> NULL]
    /\ cands = <<>>
    /\ limit = 0
    /\ max_per_city = 0
    /\ selected = <<>>
    /\ upstream = <<>>
    /\ summary = <<>>
    /\ backtest_rows = {}
    /\ steps = <<>>
    /\ invoked = <<>>
    /\ runs = <<>>
    /\ input = <<>>
    /\ output = <<>>
    /\ pc = "tx"

BeginPublish ==
    /\ pc = "tx"
    /\ runs = <<>>
    /\ now < MaxTime
    /\ \E evals \in [LiveMarkets -> EvalChoices] :
          \/ /\ LivePool(evals) = {}      \* raises before the first statement
             /\ OpenTx("publish", <<>>)
          \/ /\ LivePool(evals) # {}
             /\ \E ranked \in Perms(LivePool(evals)) :
                   OpenTx("publish", PublishStatements(LiveBatch(ranked), evals))
    /\ UNCHANGED <<dbVars, selVars, recVars, pipeVars, fnVars, pc>>

BeginExecute ==
    /\ pc = "tx"
    /\ runs = <<>>
    /\ ExecutesInMode(execution_mode)
    /\ Len(ExecutionResult.positions) <= MaxPositions
    /\ OpenTx("execute", ExecuteStatements(ExecutionResult))
    /\ UNCHANGED <<dbVars, selVars, recVars, pipeVars, fnVars, pc>>

BeginReconcile ==
    /\ pc = "tx"
    /\ runs = <<>>
    /\ \E due \in SUBSET {m \in LiveMarkets : ~HasPredictionOrPosition(m)} :
        LET candidates == ReconcileCandidates(due) IN
        \E fetch \in [candidates -> FetchChoices(now)] :
           LET setts == SettlementsAfter(settlements, candidates, fetch)
               closed == ClosedCount(positions, setts, execution_mode)
               pos == close_open_positions_for_settlements(positions, setts, execution_mode)
               dates == UpsertDates(MetricDates(candidates, fetch), closed, Date(now))
           IN  OpenTx("reconcile",
                      ReconcileStatements(setts, pos,
                          MetricsAfter(daily_metrics, dates, setts, predictions,
                                       pos, execution_mode)))
    /\ UNCHANGED <<dbVars, selVars, recVars, pipeVars, fnVars, pc>>

\* the next statement runs on the connection
TxStatement ==
    /\ pc = "tx"
    /\ runs # <<>>
    /\ runs[1].stage < Len(runs[1].statements)
    /\ runs' = << [runs[1] EXCEPT !.stage = @ + 1] >>
    /\ UNCHANGED <<dbVars, selVars, recVars, pipeVars, fnVars, pc>>

\* an exception leaves the with block: rollback, close, re-raise; the
\* operation ends with its error and the tables are looked at
TxFail ==
    /\ pc = "tx"
    /\ runs # <<>>
    /\ SetTables(Rollback(runs[1].begin, WorkOf(runs[1])))
    /\ output' = Some([op |-> runs[1].op, before |-> runs[1].begin,
                       work |-> WorkOf(runs[1])])
    /\ runs' = <<>>
    /\ pc' = "tx_failed"
    /\ UNCHANGED <<now, execution_mode, market_snapshots, selVars, recVars, pipeVars,
                   input>>

\* the with block ends: commit
TxCommit ==
    /\ pc = "tx"
    /\ runs # <<>>
    /\ runs[1].stage = Len(runs[1].statements)
    /\ runs[1].op = "publish" => runs[1].statements # <<>>
    /\ SetTables(WorkOf(runs[1]))
    /\ now' = IF runs[1].op = "publish" THEN now + 1 ELSE now
    /\ runs' = <<>>
    /\ UNCHANGED <<execution_mode, market_snapshots, selVars, recVars, pipeVars,
                   fnVars, pc>>

NextTx ==
    \/ BeginPublish
    \/ BeginExecute
    \/ BeginReconcile
    \/ TxStatement
    \/ TxFail
    \/ TxCommit

SpecTx == InitTx /\ [][NextTx]_vars

----------------------------------------------------------------------------
(* Properties of the selector, checked under SpecSelect *)

\* number of selected candidates of a city
SelectedOfCity(c) == Cardinality({p \in 1..Len(selected) : cands[selected[p]] = c})

\* the city leaders: the highest-ranked candidate of each distinct city
Leaders == {i \in 1..Len(cands) : \A j \in 1..(i - 1) : cands[j] # cands[i]}

\* C9 (as stated): for every candidate list, every limit N and every per-city cap
\* K, the output holds at most K candidates of any single city.
C9_AtMostCapPerCity_AnyCap ==
    pc = "done" => \A c \in Cities : SelectedOfCity(c) <= max_per_city

\* C9 (amended): for every per-city cap K >= 1 the output holds at most K
\* candidates of any single city; for K <= 0 pass 1 still takes one candidate per
\* city, so the output holds at most one of any city.
C9_AtMostCapPerCity ==
    pc = "done" => \A c \in Cities : SelectedOfCity(c) <= Max(max_per_city, 1)

\* C9 witness: the cap has bitten: a candidate was left out although a slot was
\* free, and its city holds exactly the cap.
C9_Witness_CapBinds ==
    /\ pc = "done"
    /\ max_per_city >= 1
    /\ Len(selected) < limit
    /\ \E i \in 1..Len(cands) :
          /\ i \notin Range(selected)
          /\ SelectedOfCity(cands[i]) = max_per_city

\* C10: the output starts with the city leaders in rank order, up to N entries; a
\* second candidate of a city comes only after the leader of every city in the
\* list; with at least N distinct cities the output is exactly the N best-ranked
\* leaders; leaders and the later picks are each in original rank order.
C10_CitySpreadFirst ==
    pc = "done" =>
        LET n == Min(Max(limit, 0), Cardinality(Leaders)) IN
        /\ Len(selected) >= n
        /\ \A p \in 1..n :
              /\ selected[p] \in Leaders
              /\ Cardinality({l \in Leaders : l < selected[p]}) = p - 1
        /\ \A p \in 1..Len(selected) :
              selected[p] \notin Leaders => p > Cardinality(Leaders)
        /\ (limit >= 1 /\ Cardinality(Leaders) >= limit) => Len(selected) = limit
        /\ \A p, q \in 1..Len(selected) :
              (p < q /\ ((selected[p] \in Leaders) = (selected[q] \in Leaders)))
                  => selected[p] < selected[q]

\* C10 witness: a lower-ranked leader of another city stands before a
\* higher-ranked second candidate of a city already taken (pass-2 pick present).
C10_Witness_LeaderBeforeDuplicate ==
    /\ pc = "done"
    /\ \E p, q \in 1..Len(selected) :
          /\ p < q
          /\ selected[p] > selected[q]
          /\ selected[q] \notin Leaders

----------------------------------------------------------------------------
(* Properties of paper execution, checked under Spec *)

OpenPositions == {i \in 1..Len(positions) : positions[i].status = "open"}

\* notional of an order: contracts * entry_price
OrderNotional(o) == o.contracts * o.limit_price

\* first order of the run that placed order i
RunStart(i) ==
    CHOOSE j \in 1..i : /\ orders[j].external_order_id.seq = 1
                        /\ \A k \in (j + 1)..i : orders[k].external_order_id.seq # 1

\* what the run of order i had spent before it placed order i
RECURSIVE NotionalOfOrders(_, _)
NotionalOfOrders(from, to) ==
    IF from > to THEN 0 ELSE OrderNotional(orders[from]) + NotionalOfOrders(from + 1, to)

SpentBefore(i) == NotionalOfOrders(RunStart(i), i - 1)

\* the row the next execute_paper_trades run would try for an open position's key
RetriesKey(p) ==
    \E r \in ExecutionRowSet(published_signals, predictions, market_snapshots,
                             paper_edge_threshold) :
        /\ r.market_id = p.market_id
        /\ edge_to_order(r.edge, r.market_yes).side = p.side

\* C1: after any sequence of publish, execute and reconcile operations there is at
\* most one open position for each (market, execution mode, side).
C1_OneOpenPositionPerKey ==
    \A i, j \in OpenPositions :
        (/\ positions[i].market_id = positions[j].market_id
         /\ positions[i].execution_mode = positions[j].execution_mode
         /\ positions[i].side = positions[j].side) => i = j

\* C1 witness: a position is open, the same market still has an active signal
\* whose edge points to the same side, and an earlier position of the same key
\* was closed by settlement: only the open-position check keeps a run from inserting.
C1_Witness_KeyReopenedAndRetried ==
    \E i, j \in 1..Len(positions) :
        /\ i < j
        /\ positions[i].status = "closed"
        /\ positions[j].status = "open"
        /\ positions[i].market_id = positions[j].market_id
        /\ positions[i].side = positions[j].side
        /\ RetriesKey(positions[j])

\* C2: within one run the orders placed sum to at most max_daily_notional_usd;
\* each order's notional is at most min(max_notional_per_signal_usd, budget
\* remaining before it), where the remaining budget is the daily budget minus the
\* notional of every order the run placed before; and the contract count is the
\* one _contracts_for_notional gives for that budget.
C2_RunBudget ==
    \A i \in 1..Len(orders) :
        LET remaining == max_daily_notional_usd - SpentBefore(i) IN
        /\ remaining > 0
        /\ OrderNotional(orders[i]) <= Min(max_notional_per_signal_usd, remaining)
        /\ SpentBefore(i) + OrderNotional(orders[i]) <= max_daily_notional_usd
        /\ orders[i].contracts =
              contracts_for_notional(orders[i].limit_price,
                                     Min(max_notional_per_signal_usd, remaining),
                                     max_contracts_per_order)

\* C2 witness: a run placed a second order when the budget remaining was below
\* the per-signal cap, and the per-signal cap alone would have bought more.
C2_Witness_RemainingBudgetBinds ==
    \E i \in 1..Len(orders) :
        /\ orders[i].external_order_id.seq = 2
        /\ max_daily_notional_usd - SpentBefore(i) < max_notional_per_signal_usd
        /\ contracts_for_notional(orders[i].limit_price, max_notional_per_signal_usd,
                                  max_contracts_per_order) > orders[i].contracts

\* total notional of the orders filled on a run date
RECURSIVE NotionalOn(_, _)
NotionalOn(d, i) ==
    IF i = 0 THEN 0
    ELSE (IF orders[i].external_order_id.run_date = d THEN OrderNotional(orders[i]) ELSE 0) + NotionalOn(d, i - 1)

\* C3 (as stated): across any number of runs made for the same run date, the total
\* notional of the paper orders filled on that date is at most max_daily_notional_usd.
C3_DailyBudgetAcrossRuns ==
    \A d \in {Date(t) : t \in 1..MaxTime} : NotionalOn(d, Len(orders)) <= max_daily_notional_usd

\* C4 (as stated): in a given execution mode a market never has two open positions
\* at the same time.
C4_OneOpenPositionPerMarket ==
    \A i, j \in OpenPositions :
        (/\ positions[i].market_id = positions[j].market_id
         /\ positions[i].execution_mode = positions[j].execution_mode) => i = j

\* C4 (amended): the open positions of a market in one execution mode are on
\* pairwise different sides, so there are at most two of them, a 'yes' and a 'no'.
C4_OpenPositionsOnDistinctSides ==
    \A m \in AllMarkets, mode \in ExecutionModes :
        LET open == {i \in OpenPositions : positions[i].market_id = m
                                           /\ positions[i].execution_mode = mode}
        IN  /\ Cardinality(open) <= 2
            /\ Cardinality({positions[i].side : i \in open}) = Cardinality(open)

\* C4 witness: a market holds an open 'yes' and an open 'no' position in the same
\* mode, opened by runs of two different days between which the edge changed sign.
C4_Witness_YesAndNoOpen ==
    \E i, j \in OpenPositions :
        /\ positions[i].market_id = positions[j].market_id
        /\ positions[i].execution_mode = positions[j].execution_mode
        /\ positions[i].side = "yes"
        /\ positions[j].side = "no"
        /\ Date(positions[i].opened_at) # Date(positions[j].opened_at)

----------------------------------------------------------------------------
(* Properties of the position life cycle and of settlement, checked under Spec *)

\* C5: a position's only transition is open -> closed, taken only by settlement
\* reconciliation for a market that has a settlement row: no step removes a
\* position, reopens a closed one, changes a closed one, closes one whose market has
\* no settlement, or alters market, mode, side, entry price, contracts or opening
\* time of an existing position.
C5_OnlyOpenToClosedBySettlement ==
    [][ /\ Len(positions') >= Len(positions)
        /\ \A i \in 1..Len(positions) :
              LET p == positions[i]
                  q == positions'[i]
              IN  /\ q.market_id = p.market_id
                  /\ q.execution_mode = p.execution_mode
                  /\ q.side = p.side
                  /\ q.entry_price = p.entry_price
                  /\ q.contracts = p.contracts
                  /\ q.opened_at = p.opened_at
                  /\ p.status = "closed" => q = p
                  /\ (p.status = "open" /\ q # p) =>
                        /\ q.status = "closed"
                        /\ settlements'[p.market_id] # NULL
                        /\ q.closed_at = settlements'[p.market_id][1].settled_at
                        /\ orders' = orders
                        /\ published_signals' = published_signals
        /\ \A i \in (Len(positions) + 1)..Len(positions') :
              /\ positions'[i].status = "open"
              /\ orders' # orders
      ]_vars

\* C5 witness: reconciliation has closed a position of a settled market while
\* another position, opened later on the same market, is open.
C5_Witness_ClosedBySettlement ==
    \E i, j \in 1..Len(positions) :
        /\ positions[i].status = "closed"
        /\ settlements[positions[i].market_id] # NULL
        /\ positions[i].closed_at = settlements[positions[i].market_id][1].settled_at
        /\ positions[j].status = "open"
        /\ positions[j].market_id = positions[i].market_id

\* C6: a closed position's realized P&L is (payout - entry_price) * contracts with
\* payout 1 (100 cents) when its side matches the settled outcome and 0 otherwise,
\* in all four side/outcome cases; it is >= 0 exactly when the side matches.
C6_RealizedPnl ==
    \A i \in 1..Len(positions) :
        positions[i].status = "closed" =>
            LET p == positions[i]
                settled_yes == settlements[p.market_id][1].settled_yes
                matches == (p.side = "yes") = settled_yes
                payout == IF matches THEN 100 ELSE 0
            IN  /\ p.side \in {"yes", "no"}
                /\ p.realized_pnl = (payout - p.entry_price) * p.contracts
                /\ matches <=> p.realized_pnl >= 0
                /\ ~matches <=> p.realized_pnl <= 0

\* C6 witness: one settlement closed a 'yes' and a 'no' position of the market, one
\* with a gain and one with a loss.
C6_Witness_GainAndLoss ==
    \E i, j \in 1..Len(positions) :
        /\ positions[i].status = "closed" /\ positions[j].status = "closed"
        /\ positions[i].side = "yes" /\ positions[j].side = "no"
        /\ positions[i].market_id = positions[j].market_id
        /\ positions[i].realized_pnl * positions[j].realized_pnl < 0

----------------------------------------------------------------------------
(* Properties of publishing, checked under Spec *)

ActiveSignals == {i \in 1..Len(published_signals) : published_signals[i].is_active}

\* C7: after any sequence of live and demo-fallback publishes each market has at
\* most one published signal with is_active = TRUE.
C7_OneActiveSignalPerMarket ==
    \A i, j \in ActiveSignals :
        published_signals[i].market_id = published_signals[j].market_id => i = j

\* C7 witness: the demo fallback published the same demo market twice; the older
\* signal is inactive and the newer one active.
C7_Witness_Republished ==
    \E i, j \in 1..Len(published_signals) :
        /\ i < j
        /\ published_signals[i].market_id = published_signals[j].market_id
        /\ published_signals[i].market_id \in DemoMarkets
        /\ ~published_signals[i].is_active
        /\ published_signals[j].is_active

\* C8 (as stated): after every publish, live or demo fallback, the active signals
\* are exactly the rows just published and every older row is inactive.
C8_ActiveSetIsBatch ==
    [][ Len(published_signals') > Len(published_signals) =>
            \A i \in 1..Len(published_signals') :
                published_signals'[i].is_active <=> i > Len(published_signals)
      ]_vars

\* C8 (amended): after a live publish the active signals are exactly the rows just
\* published and every older row is inactive; after a demo-fallback publish the
\* new demo row is active, every older row of the demo market is inactive, and the
\* rows of other markets keep the is_active they had.
C8_ActiveSetAfterPublish ==
    [][ Len(published_signals') > Len(published_signals) =>
            LET old == published_signals
                new == published_signals'
                n == Len(old)
            IN  /\ \A i \in 1..n :
                      [new[i] EXCEPT !.is_active = old[i].is_active] = old[i]
                /\ IF new[Len(new)].market_id \in LiveMarkets
                   THEN \A i \in 1..Len(new) : new[i].is_active <=> i > n
                   ELSE /\ Len(new) = n + 1
                        /\ new[n + 1].is_active
                        /\ \A i \in 1..n :
                              new[i].is_active <=>
                                 (old[i].is_active /\ old[i].market_id # new[n + 1].market_id)
      ]_vars

\* C8 witness: a demo-fallback publish has left the signal of an earlier live
\* publish active next to its own.
C8_Witness_LiveStaysActiveAfterDemo ==
    \E i, j \in ActiveSignals :
        /\ i < j
        /\ published_signals[i].market_id \in LiveMarkets
        /\ published_signals[j].market_id \in DemoMarkets

----------------------------------------------------------------------------
(* Properties of reconciliation, checked under SpecReconcile *)

Eligible(m) ==
    {i \in 1..Len(predictions) :
        /\ predictions[i].market_id = m
        /\ predictions[i].predicted_at <= settlements[m][1].settled_at}

\* the (market, probability) pairs in `used` are point-in-time correct for the
\* settled markets in `settled`
PointInTime(used, settled) ==
    /\ \A u \in used : u[1] \in settled
    /\ \A m \in settled :
          IF Eligible(m) = {} THEN \A u \in used : u[1] # m
          ELSE /\ Cardinality({u \in used : u[1] = m}) = 1
               /\ \A u \in used : u[1] = m =>
                     /\ \E i \in Eligible(m) :
                           /\ predictions[i].prob_yes = u[2]
                           /\ \A j \in Eligible(m) :
                                 predictions[j].predicted_at <= predictions[i].predicted_at
                     /\ \A i \in 1..Len(predictions) :
                           (/\ predictions[i].market_id = m
                            /\ predictions[i].predicted_at > settlements[m][1].settled_at)
                               => predictions[i].prob_yes # u[2]

\* C12: every settlement scored into a daily_metrics row, and into the backtest
\* rows, is scored with the prediction of greatest predicted_at among its market's
\* predictions with predicted_at <= settled_at; a later prediction is never used,
\* and a settlement without such a prediction is left out.
C12_PointInTimeScoring ==
    /\ \A k \in DOMAIN daily_metrics :
          daily_metrics[k] # NULL =>
              LET row == daily_metrics[k][1]
                  scored == IF row.log_loss = NULL THEN {} ELSE row.log_loss[1]
              IN  PointInTime({<<r.market_id, r.prob_yes>> : r \in scored},
                              {m \in DOMAIN settlements :
                                  /\ settlements[m] # NULL
                                  /\ Date(settlements[m][1].settled_at) = k[1]})
    /\ pc = "rc_reported" =>
          PointInTime({<<r.market_id, r.model_prob_yes>> : r \in backtest_rows},
                      {m \in DOMAIN settlements : settlements[m] # NULL})

\* C12 witness: the report is written; a scored market has a prediction made after
\* its settlement time and an earlier one that was used, and another settled
\* market without any prediction is left out of the metrics row and the report.
C12_Witness_LookAheadAvailable ==
    /\ pc = "rc_reported"
    /\ \E m, n \in ReconcileMarkets :
          /\ settlements[m] # NULL /\ settlements[n] # NULL
          /\ Eligible(m) # {}
          /\ \E i \in 1..Len(predictions) :
                /\ predictions[i].market_id = m
                /\ predictions[i].predicted_at > settlements[m][1].settled_at
          /\ Eligible(n) = {}
          /\ \E r \in backtest_rows : r.market_id = m
          /\ \E k \in DOMAIN daily_metrics :
                /\ daily_metrics[k] # NULL
                /\ daily_metrics[k][1].log_loss # NULL
                /\ Date(settlements[n][1].settled_at) = k[1]

\* a step that is one reconcile_settlements run
ReconcileRunStep ==
    /\ pc \in {"rc_first", "rc_ran", "rc_changed"}
    /\ pc' \in {"rc_ran", "rc_reran", "rc_reran_changed"}
    /\ pc' # pc

\* the positions of a market are the same rows before and after the step
PositionsOfMarketUnchanged(m) ==
    \A i \in 1..Len(positions) : positions[i].market_id = m => positions'[i] = positions[i]

\* C13: a run writes a settlement row for a market only when the fetched status
\* (trimmed, lower-cased) is settled, finalized or determined and the result
\* (trimmed, lower-cased) is yes or no, mapped to TRUE/FALSE; for any other status
\* or result the run still completes, the market gets no settlement row, its open
\* positions stay open, and it is a candidate again for the next run.
C13_SettlesOnlyFinalYesNo ==
    [][ ReconcileRunStep =>
          \A m \in ReconcileMarkets :
             settlements[m] = NULL =>
                LET f == upstream[m]
                    final == NormalizeText(f.status) \in {"settled", "finalized", "determined"}
                    yesno == NormalizeText(f.result) \in {"yes", "no"}
                IN  /\ summary' # NULL
                    /\ settlements'[m] # NULL => (f.kind = "payload" /\ final /\ yesno)
                    /\ (f.kind = "payload" /\ final /\ yesno) =>
                          /\ settlements'[m] # NULL
                          /\ settlements'[m][1].settled_yes = (NormalizeText(f.result) = "yes")
                          /\ settlements'[m][1].settled_at = f.settled_at
                    /\ (f.kind = "payload" /\ ~(final /\ yesno)) =>
                          /\ settlements'[m] = NULL
                          /\ PositionsOfMarketUnchanged(m)
                          /\ \A i \in 1..Len(positions') :
                                positions'[i].market_id = m => positions'[i].status = "open"
                          /\ m \in {c \in DOMAIN settlements' :
                                      settlements'[c] = NULL /\ IsLowTempTicker(c)}
      ]_vars

\* C13 witness: two runs are over; one market was settled from a payload with a
\* final status and a yes/no result and its position closed; the other, whose
\* payload is not final or carries no yes/no result, has no settlement row, an
\* open position, and was checked by the second run.
C13_Witness_SkippedAndRechecked ==
    /\ pc = "rc_reran"
    /\ summary[1].checked_markets = 1
    /\ summary[1].fetch_failures = 0
    /\ \E m, n \in ReconcileMarkets :
          /\ settlements[m] # NULL
          /\ \E i \in 1..Len(positions) :
                positions[i].market_id = m /\ positions[i].status = "closed"
          /\ settlements[n] = NULL
          /\ upstream[n].kind = "payload"
          /\ \E i \in 1..Len(positions) :
                positions[i].market_id = n /\ positions[i].status = "open"

\* C14: once a market has a settlement row no later step changes its settled_yes
\* or settled_at; the table holds one row per market (it is keyed by market_id).
C14_SettlementImmutable ==
    [][ \A m \in DOMAIN settlements :
           settlements[m] # NULL => settlements'[m] = settlements[m]
      ]_vars

\* C14 witness: a market was settled by the first run, its upstream payload then
\* changed to another outcome, and the second run left the settlement as it was.
C14_Witness_UpstreamRevised ==
    /\ pc = "rc_reran_changed"
    /\ \E m \in ReconcileMarkets :
          /\ settlements[m] # NULL
          /\ SettlesMarket(upstream[m])
          /\ market_result_to_bool(upstream[m].result)[1] # settlements[m][1].settled_yes

\* C19: a fetch failure is caught per market: the run counts it in fetch_failures,
\* writes nothing for that market, still checks every other candidate and settles
\* those that are resolved, and checked_markets is the number of candidates.
C19_FetchFailurePerItem ==
    [][ ReconcileRunStep =>
          LET candidates == {m \in ReconcileMarkets : settlements[m] = NULL}
              failed == {m \in candidates : upstream[m].kind = "error"}
          IN  /\ summary' # NULL
              /\ summary'[1].checked_markets = Cardinality(candidates)
              /\ summary'[1].fetch_failures = Cardinality(failed)
              /\ \A m \in failed :
                    /\ settlements'[m] = NULL
                    /\ PositionsOfMarketUnchanged(m)
              /\ \A m \in candidates \ failed :
                    (/\ NormalizeText(upstream[m].status) \in {"settled", "finalized", "determined"}
                     /\ NormalizeText(upstream[m].result) \in {"yes", "no"})
                        => settlements'[m] # NULL
              /\ summary'[1].settled_markets =
                    Cardinality({m \in candidates : settlements'[m] # NULL})
      ]_vars

\* C19 witness: a run checked two markets, the fetch of one failed, the other was
\* settled and its position closed.
C19_Witness_OneFailedOneSettled ==
    /\ pc = "rc_ran"
    /\ summary[1].checked_markets = 2
    /\ summary[1].fetch_failures = 1
    /\ summary[1].settled_markets = 1
    /\ summary[1].closed_positions = 1
    /\ \E m \in ReconcileMarkets : upstream[m].kind = "error" /\ settlements[m] = NULL

----------------------------------------------------------------------------
(* Properties of the pipeline, checked under SpecPipeline *)

----------------------------------------------------------------------------
(* Properties of concurrent runs, checked under SpecConcurrent *)

\* two open positions with one (market, execution mode, side)
DuplicateOpenPosition ==
    \E i, j \in OpenPositions :
        /\ i < j
        /\ positions[i].market_id = positions[j].market_id
        /\ positions[i].execution_mode = positions[j].execution_mode
        /\ positions[i].side = positions[j].side

\* C16: when the two runs are serialized (neither does its SELECT while the
\* other is between its SELECT and its commit) no two open positions share a
\* (market, execution mode, side); the witness is the state the interleaved
\* runs reach, with the duplicate and a combined notional above
\* max_daily_notional_usd.
C16_SerializedRunsNoDuplicate ==
    (pc = "conc" /\ \A r \in Runs : ~runs[r].overlapped) => ~DuplicateOpenPosition

\* both runs started on a database without positions, each read "no open
\* position" and a spent notional of zero, and both committed
C16_Witness_InterleavedDuplicate ==
    /\ pc = "conc"
    /\ \A r \in Runs : runs[r].pc = "done" /\ runs[r].overlapped /\ runs[r].placed_orders = 1
    /\ Len(orders) = 2
    /\ DuplicateOpenPosition
    /\ NotionalOfOrders(1, 2) > max_daily_notional_usd

\* C17: when the execution mode is not "paper" a run is a no-op: no step of it
\* changes a table, it executes no query and holds no uncommitted row, and it
\* ends with the "Execution skipped" result.
C17_NonPaperIsNoOp ==
    [][ (pc = "conc" /\ execution_mode # "paper") =>
            /\ UNCHANGED dbVars
            /\ \A r \in Runs :
                  /\ ~runs'[r].queried
                  /\ runs'[r].new_orders = <<>> /\ runs'[r].new_positions = <<>>
                  /\ runs'[r] # runs[r] =>
                        runs'[r].pc = "done" /\ runs'[r].result = "skipped" ]_vars

\* a live-mode run is over although the SELECT would have returned a row
C17_Witness_SkippedWithWorkToDo ==
    /\ pc = "conc"
    /\ execution_mode = "live"
    /\ runs[1].pc = "done" /\ runs[1].result = "skipped"
    /\ ExecutionRowSet(published_signals, predictions, market_snapshots,
                       paper_edge_threshold) # {}
    /\ positions = <<>> /\ orders = <<>>

----------------------------------------------------------------------------
(* Properties of the candidate evaluator, checked under SpecEvaluate *)

\* the market has a condition (parsed from the title or built from the ticker's
\* threshold) and a city code
HasConditionAndCity ==
    /\ input.condition_parsable \/ input.threshold_in_ticker
    /\ input.city_code # ""

\* C18: a market with a condition and a city code but no forecast sample yields
\* a candidate whose model probability equals the market-implied probability,
\* whose edge is 0 and whose confidence is 0.55; and the confidence of every
\* candidate, forecast-backed or not, lies in [0.55, 0.97].
C18_NoForecastFallback ==
    pc = "eval_done" =>
        /\ (HasConditionAndCity /\ input.forecast = NULL) =>
              /\ output # NULL
              /\ ~output[1].has_forecast
              /\ output[1].prob_yes = input.market_implied_yes
              /\ output[1].edge = 0
              /\ output[1].confidence = 5500
        /\ output # NULL =>
              output[1].confidence >= 5500 /\ output[1].confidence <= 9700

\* a market quoted at 0 without a forecast has been evaluated to a candidate
C18_Witness_FallbackAtZeroPrice ==
    /\ pc = "eval_done"
    /\ HasConditionAndCity
    /\ input.forecast = NULL
    /\ input.market_implied_yes = 0
    /\ output # NULL

----------------------------------------------------------------------------
(* Properties of the playbook, checked under SpecPlaybook *)

\* C20: the action is "pass" whenever confidence < 0.58, whatever the edge;
\* otherwise it is "lean_yes" when edge >= threshold, else "lean_no" when
\* edge <= -threshold, else (|edge| < threshold) "pass"; and a "pass" gets a
\* suggested notional of 0 and 0 suggested contracts.
C20_PlaybookAction ==
    pc = "pb_done" =>
        LET o == output[1]
            t == input.edge_threshold
        IN  /\ input.confidence < 5800 => o.action = "pass"
            /\ input.confidence >= 5800 =>
                  /\ input.edge >= t => o.action = "lean_yes"
                  /\ (input.edge < t /\ input.edge <= -t) => o.action = "lean_no"
                  /\ Abs(input.edge) < t => o.action = "pass"
            /\ o.action \in {"pass", "lean_yes", "lean_no"}
            /\ o.action = "pass" =>
                  /\ o.suggested_notional.num = 0
                  /\ o.suggested_notional_usd = 0
                  /\ o.suggested_contracts = 0

\* an edge far above the threshold passed for lack of confidence, with a
\* notional cap that would have bought contracts
C20_Witness_LowConfidencePass ==
    /\ pc = "pb_done"
    /\ input.confidence = 5799
    /\ input.edge = 20
    /\ input.edge_threshold = paper_edge_threshold
    /\ input.max_notional = max_notional_per_signal_usd
    /\ output[1].action = "pass"
    /\ output[1].suggested_contracts = 0

----------------------------------------------------------------------------
(* Properties of the sizing and side helpers, checked under SpecHelpers *)

\* C21: _contracts_for_notional returns 0 when the entry price, the notional or
\* the contract cap is not positive, and min(floor(notional / entry_price),
\* max_contracts) otherwise; the result is never negative and, when it is
\* computed from positive arguments, neither exceeds max_contracts nor costs
\* more than the notional; the copy in signals_repo returns the same value.
C21_ContractsForNotional ==
    pc = "contracts_done" =>
        LET r == output[1].paper
            positive == input.entry_price > 0 /\ input.max_notional > 0
                        /\ input.max_contracts > 0
        IN  /\ ~positive => r = 0
            /\ positive =>
                  /\ r = Min(input.max_notional \div input.entry_price, input.max_contracts)
                  /\ r <= input.max_contracts
                  /\ r * input.entry_price <= input.max_notional
            /\ r >= 0
            /\ output[1].playbook = r

\* the cap binds: 300 dollars buy more than 12 contracts at 0.32
C21_Witness_CapBinds ==
    /\ pc = "contracts_done"
    /\ input.entry_price = 32 /\ input.max_notional = 30000 /\ input.max_contracts = 12
    /\ output[1].paper = 12

\* C22: _edge_to_order maps edge >= 0 to side "yes" at the YES price clamped to
\* [0.01, 0.99] and edge < 0 to side "no" at 1 minus the clamped YES price;
\* whenever the playbook action is lean_yes (lean_no) the execution side is
\* "yes" ("no") and its entry price is the playbook's entry price.
C22_SameSignConvention ==
    pc = "order_done" =>
        LET o == output[1].order
            clamped_yes == clamp(input.market_yes, 1, 99)
        IN  /\ input.edge >= 0 => (o.side = "yes" /\ o.entry_price = clamped_yes)
            /\ input.edge < 0 => (o.side = "no" /\ o.entry_price = 100 - clamped_yes)
            /\ output[1].action = "lean_yes" =>
                  (o.side = "yes" /\ o.entry_price = output[1].playbook_price)
            /\ output[1].action = "lean_no" =>
                  (o.side = "no" /\ o.entry_price = output[1].playbook_price)

\* a lean_no on a market quoted at 41: both sides enter at 59
C22_Witness_LeanNoAt59 ==
    /\ pc = "order_done"
    /\ input.market_yes = 41
    /\ output[1].action = "lean_no"
    /\ output[1].order = [side |-> "no", entry_price |-> 59]
    /\ output[1].playbook_price = 59

----------------------------------------------------------------------------
(* Properties of condition resolution, checked under SpecCondition *)

\* C23 (as stated): every range condition of a candidate has low <= high, and
\* so have the condition_low_f and condition_high_f recorded for it, also when
\* the title gives the bounds in reversed order.
C23_RangeIsNormalized ==
    (pc = "cond_done" /\ output # NULL /\ output[1].condition.kind = "range") =>
        /\ output[1].condition.low <= output[1].condition.high[1]
        /\ output[1].condition_low_f <= output[1].condition_high_f[1]

\* C24: the title is tried first (range, then "<", then ">") and the ticker's
\* threshold second, as gt(threshold); a market with no condition from either,
\* or without a city code, yields no candidate.
C24_TitleBeforeTicker ==
    pc = "cond_done" =>
        LET title == input.title
            range == \E i \in 1..Len(title) : i + 2 <= Len(title) /\ title[i].t = "num"
                         /\ title[i + 1].t = "-" /\ title[i + 2].t = "num"
            lt == \E i \in 1..Len(title) : i + 1 <= Len(title) /\ title[i].t = "<"
                         /\ title[i + 1].t = "num"
            gt == \E i \in 1..Len(title) : i + 1 <= Len(title) /\ title[i].t = ">"
                         /\ title[i + 1].t = "num"
            none == ~range /\ ~lt /\ ~gt
            kind == output[1].condition.kind
        IN  /\ input.city_code = "" => output = NULL
            /\ (none /\ input.threshold = NULL) => output = NULL
            /\ (input.city_code # "" /\ ~(none /\ input.threshold = NULL)) =>
                  /\ output # NULL
                  /\ range => kind = "range"
                  /\ (~range /\ lt) => kind = "lt"
                  /\ (~range /\ ~lt /\ gt) => kind = "gt"
                  /\ none => output[1].condition =
                                [kind |-> "gt", low |-> input.threshold[1], high |-> NULL]

\* a title with a "<" pattern on a ticker that also carries a threshold
C24_Witness_TitleWinsOverTicker ==
    /\ pc = "cond_done"
    /\ input.title = <<Tok("w"), Tok("<"), Num(40)>>
    /\ input.threshold = Some(38)
    /\ input.city_code = "NYC"
    /\ output # NULL
    /\ output[1].condition = [kind |-> "lt", low |-> 40, high |-> NULL]

----------------------------------------------------------------------------
(* Freshness of the stored metrics, checked under Spec *)

\* C25 (as stated): every stored daily_metrics row of (date, mode) carries the
\* gross and net P&L of the positions closed on that date and the max drawdown
\* over the days up to that date, as a recomputation from the current
\* positions gives them.
C25_MetricsAreFresh ==
    \A k \in DOMAIN daily_metrics :
        daily_metrics[k] # NULL =>
            /\ daily_metrics[k][1].gross_pnl = GrossPnl(positions, k[2], k[1])
            /\ daily_metrics[k][1].net_pnl = GrossPnl(positions, k[2], k[1])
            /\ daily_metrics[k][1].max_drawdown = MaxDrawdown(positions, k[2], k[1])

----------------------------------------------------------------------------
(* Slot filling of the selector, checked under SpecSelect *)

\* C26: the output has at most N entries, holds each candidate at most once,
\* is empty when N <= 0 or there is no candidate, and whenever it has fewer
\* than N entries every candidate left out is of a city that has reached the
\* per-city cap K.
C26_FillsEverySlot ==
    pc = "done" =>
        /\ Len(selected) <= Max(limit, 0)
        /\ \A p, q \in 1..Len(selected) : p # q => selected[p] # selected[q]
        /\ \A p \in 1..Len(selected) : selected[p] \in 1..Len(cands)
        /\ (limit <= 0 \/ cands = <<>>) => selected = <<>>
        /\ Len(selected) < limit =>
              \A i \in 1..Len(cands) :
                  i \notin Range(selected) => SelectedOfCity(cands[i]) >= max_per_city

\* every slot is filled, the last ones by second candidates of a city, and a
\* candidate is left over
C26_Witness_FilledByLeftovers ==
    /\ pc = "done"
    /\ Len(selected) = limit
    /\ \E p \in 1..Len(selected) : selected[p] \notin Leaders
    /\ \E i \in 1..Len(cands) : i \notin Range(selected)

----------------------------------------------------------------------------
(* Properties of the pipeline runs against the database, checked under     *)
(* SpecDaily                                                               *)

\* C27: the steps a run has invoked are a prefix of the fixed order ingest,
\* reconcile, backtest, features, train, score/decide, execute, bot intel,
\* publish, each recorded exactly once at its place; and every order was
\* placed on a prediction whose signal an earlier run published, never on
\* one published in the order's own run.
C27_FixedOrderEarlierSignals ==
    /\ Len(invoked) <= Len(PipelineSteps)
    /\ Len(steps) = Len(invoked)
    /\ \A k \in 1..Len(invoked) :
          /\ invoked[k] = PipelineSteps[k]
          /\ steps[k].step = PipelineSteps[k]
    /\ \A i \in 1..Len(orders) :
          predictions[orders[i].decision_id].predicted_at < orders[i].created_at

\* a complete run that both placed an order and published a signal
C27_Witness_ExecutedThenPublished ==
    /\ Len(invoked) = Len(PipelineSteps)
    /\ \A k \in 1..Len(steps) : steps[k].status = "ok"
    /\ \E i \in 1..Len(orders) : orders[i].created_at = now
    /\ \E i \in 1..Len(published_signals) : published_signals[i].published_at = now

\* C29: every position a step opens is on a market without a settlement row.
C29_NoPositionOnSettledMarket ==
    [][\A i \in (Len(positions) + 1)..Len(positions') :
          settlements'[positions'[i].market_id] = NULL]_vars

----------------------------------------------------------------------------
(* Properties of one execution run, checked under SpecBudget *)

\* the markets with an active signal and their rows
SignalledMarkets == {published_signals[i].market_id : i \in ActiveSignals}

RowOf(m) == ExecutionRow(published_signals, predictions, market_snapshots, m)

\* |model probability - latest market price| is at least paper_edge_threshold
Considered(m) ==
    /\ m \in SignalledMarkets
    /\ Abs(RowOf(m).prob_yes - RowOf(m).market_yes) >= paper_edge_threshold

\* descending edge magnitude, ties by ascending ticker
Precedes(a, b) ==
    \/ Abs(a.edge) > Abs(b.edge)
    \/ Abs(a.edge) = Abs(b.edge) /\ a.market_id < b.market_id

OrdersOn(m) == {i \in 1..Len(orders) : orders[i].market_id = m}

\* notional of the orders placed on the candidates before market m
RECURSIVE NotionalOfSet(_)
NotionalOfSet(idx) ==
    IF idx = {} THEN 0
    ELSE LET i == CHOOSE k \in idx : TRUE
         IN  OrderNotional(orders[i]) + NotionalOfSet(idx \ {i})

SpentOnEarlier(m) ==
    NotionalOfSet({i \in 1..Len(orders) : Precedes(RowOf(orders[i].market_id), RowOf(m))})

\* the position was open before the run
HeldBefore(m, side) ==
    \E i \in 1..Len(positions) :
        /\ positions[i].market_id = m
        /\ positions[i].execution_mode = execution_mode
        /\ positions[i].side = side
        /\ positions[i].opened_at < now

\* the candidate is skipped: an open position exists, or 0 affordable contracts
SkippedCandidate(m) ==
    LET ord == edge_to_order(RowOf(m).edge, RowOf(m).market_yes)
        budget == Min(max_notional_per_signal_usd,
                      max_daily_notional_usd - SpentOnEarlier(m))
    IN  \/ HeldBefore(m, ord.side)
        \/ contracts_for_notional(ord.entry_price, budget, max_contracts_per_order) <= 0

\* C28: after a run, (1) every order is on a market whose active signal has
\* |model probability - latest price| >= paper_edge_threshold, at most one per
\* market; (2) the orders were placed in descending edge magnitude, ties by
\* ascending ticker; (3) a considered market received an order exactly when
\* the orders on the candidates before it left some daily budget and it was
\* not skipped -- so nothing is ordered once the budget is used up, and a
\* skipped candidate neither spends budget nor stops the ones after it.
C28_BudgetedInEdgeOrder ==
    pc = "budget_done" =>
        /\ \A i \in 1..Len(orders) :
              /\ Considered(orders[i].market_id)
              /\ OrdersOn(orders[i].market_id) = {i}
        /\ \A i, j \in 1..Len(orders) :
              i < j => Precedes(RowOf(orders[i].market_id), RowOf(orders[j].market_id))
        /\ \A m \in AllMarkets :
              Considered(m) =>
                 ( OrdersOn(m) # {}
                     <=> /\ max_daily_notional_usd - SpentOnEarlier(m) > 0
                         /\ ~SkippedCandidate(m) )

\* two orders used the daily budget up and the candidate after them, which
\* holds no position and could afford a contract, received none
C28_Witness_StoppedAtBudget ==
    /\ pc = "budget_done"
    /\ Len(orders) = 2
    /\ NotionalOfSet(1..Len(orders)) = max_daily_notional_usd
    /\ \E m \in AllMarkets :
          /\ Considered(m)
          /\ OrdersOn(m) = {}
          /\ SpentOnEarlier(m) = max_daily_notional_usd
          /\ ~HeldBefore(m, edge_to_order(RowOf(m).edge, RowOf(m).market_yes).side)

----------------------------------------------------------------------------
(* Properties of the transactions, checked under SpecTx *)

\* every order has the position that was inserted with it
OrderHasPosition(o) ==
    \E j \in 1..Len(positions) :
        /\ positions[j].market_id = o.market_id
        /\ positions[j].execution_mode = o.execution_mode
        /\ positions[j].side = o.side
        /\ positions[j].opened_at = o.created_at

\* C30: after a publish, an execution or a reconcile failed part-way, the
\* persisted tables are what they were when the operation began (the signals
\* active before are still active; no prediction, signal, order, position,
\* settlement, position close or metric row of the attempt persists), and at
\* any time no persisted order is without its position.
C30_FailureLeavesStateUnchanged ==
    /\ pc = "tx_failed" => Tables = output[1].before
    /\ \A i \in 1..Len(orders) : OrderHasPosition(orders[i])

\* a live publish failed after it had deactivated the signals active before
C30_Witness_FailedAfterDeactivate ==
    /\ pc = "tx_failed"
    /\ output[1].op = "publish"
    /\ \E i \in 1..Len(output[1].before.published_signals) :
          /\ output[1].before.published_signals[i].is_active
          /\ ~output[1].work.published_signals[i].is_active
          /\ published_signals[i].is_active

============================================================================
